---- MODULE Spec2Model ----
(***************************************************************************)
(* Periodic-note resolver of the extended calendar plugin.                 *)
(*                                                                         *)
(* The repository holds five resolver implementations (one quarterly and   *)
(* four yearly); `impl` names the one a behaviour runs.  A resolution is   *)
(* one call of openOrCreate*Note; its asynchronous steps (createFolder,    *)
(* cachedRead, vault.create, leaf.openFile) are each a call followed, in a *)
(* later step of the event loop, by its completion, so that other          *)
(* resolutions and other writers of the vault can run in between.          *)
(***************************************************************************)
EXTENDS Integers, Sequences, FiniteSets, TLC

VARIABLES
  impl,           \* which resolver implementation the behaviour runs
  settings,       \* the plugin's ISettings
  periodicNotes,  \* the periodic-notes plugin (NoPlugin when not installed)
  vault,          \* path -> content of every note file of the vault
  folders,        \* the folders of the vault
  templateFile,   \* the file the configured template path resolves to
  foldState,      \* path -> the fold info foldManager.save was called with
  res,            \* slot -> the resolution running in it
  resolved,       \* history: date-UID of a period -> the file the last
                  \* completed resolution of that period opened
  now,            \* the wall clock: the time of day moment() returns
  expander,       \* the template text createFile is expanding, replace by replace
  quarterlyNotes, \* the store of the quarterly notes: date-UID -> file
  yearlyNotes,    \* the store of the yearly notes: date-UID -> file
  storeOp,        \* history: the last operation on the vault or the stores
  indicators,     \* what afterUpdate last looked up for the displayed month
  calendar,       \* the calendar component's `today` and `displayedMonth`
  wallClock,      \* the moment window.moment() returns
  beat,           \* the seconds since the last heartbeat, and history: what
                  \* the last step of the calendar was and what it found
  monthlyNotes,   \* the store of the monthly notes: date-UID -> file
  storeErrors,    \* per store: hasError, and the failures and logs of the current run
  component,      \* which version of the calendar component is mounted
  dom,            \* the text nodes of the calendar's header, in document
                  \* order, each with the wrapper the decoration put around it
  flush           \* the component's place in the update cycle of the framework

vars == <<impl, settings, periodicNotes, vault, folders, templateFile, foldState, res, resolved,
         now, expander, quarterlyNotes, yearlyNotes, storeOp, indicators,
         calendar, wallClock, beat, monthlyNotes, storeErrors, component, dom, flush>>

\* the note index and what the calendar reads from it
storeVars == <<monthlyNotes, quarterlyNotes, yearlyNotes, storeErrors, storeOp, indicators>>

\* the calendar component and its clock
calendarVars == <<calendar, wallClock, beat>>

\* the mounted component and the header it decorates
decorVars == <<component, dom>>

\* what the steps of a resolution leave alone
nonResolverVars == <<now, expander, storeVars, calendarVars, decorVars, flush>>

----------------------------------------------------------------------------
(* Bounds and small input sets *)

\* At most two resolutions overlap; any number follow one another.  A call
\* runs in slot "a" when it is free, in "b" only while "a" is running.
Slots == {"a", "b"}

Impls == {"quarterly", "yearlyPeriodic", "yearlySettings", "yearlyFallback", "yearlyFallbackCatch"}

mkDate(y, m, d) == [year |-> y, month |-> m, day |-> d]

Dates == {mkDate(2026, 1, 31), mkDate(2026, 2, 1)}

FolderSettings == {"", "Periodic"}

TemplateSettings == {"", "Templates/period"}

\* periodic-notes not installed: getPlugin returns nothing
NoPlugin ==
  [installed |-> FALSE,
   quarterly |-> [format |-> "", folder |-> ""],
   yearly |-> [format |-> "", folder |-> "", template |-> ""]]

NULL == "null"

\* "{{" body "}}", character by character
Braces(body) == <<"{", "{">> \o body \o <<"}", "}">>

\* Template texts of the resolutions, as sequences of characters: the empty
\* file and "# {{title}} {{ Date }}".
TemplateTexts ==
  { <<>>,
    <<"#", " ">> \o Braces(<<"t", "i", "t", "l", "e">>) \o <<" ">>
      \o Braces(<<" ", "D", "a", "t", "e", " ">>) }

\* wall-clock times of day: just after and just before midnight
Midnight == [hour |-> 0, minute |-> 0, second |-> 0]

Clocks == {Midnight, [hour |-> 23, minute |-> 59, second |-> 59]}

FoldInfos == {NULL, "folds"}

\* no file at the template path
NoTemplate == [exists |-> FALSE, contents |-> <<>>, fold |-> NULL]

----------------------------------------------------------------------------
(* Dates, formats, paths *)

quarter(date) == ((date.month - 1) \div 3) + 1

Pad2(n) == IF n < 10 THEN "0" \o ToString(n) ELSE ToString(n)

\* moment's format for the format strings the settings can hold
FormatDate(date, format) ==
  CASE format = "[Q]Q-YYYY"  -> "Q" \o ToString(quarter(date)) \o "-" \o ToString(date.year)
    [] format = "YYYY-[Q]Q"  -> ToString(date.year) \o "-Q" \o ToString(quarter(date))
    [] format = "YYYY"       -> ToString(date.year)
    [] format = "YYYY-MM"    -> ToString(date.year) \o "-" \o Pad2(date.month)
    [] format = "YYYY-MM-DD" -> ToString(date.year) \o "-" \o Pad2(date.month)
                                  \o "-" \o Pad2(date.day)

RECURSIVE JoinPath(_)
JoinPath(segs) ==
  IF Len(segs) = 1 THEN segs[1] ELSE segs[1] \o "/" \o JoinPath(Tail(segs))

\* obsidian's normalizePath on a path given by its segments: empty segments
\* (a leading or a doubled slash) are dropped, the empty path is "/"
normalizePath(segs) ==
  LET kept == SelectSeq(segs, LAMBDA s : s # "")
  IN IF kept = <<>> THEN "/" ELSE JoinPath(kept)

OrDefault(value, default) == IF value = "" THEN default ELSE value

\* faulty variant: the default format of another period kind
getQuarterlyNoteSettingsMonthlyDefault(s) ==
  [format   |-> OrDefault(s.quarterlyNoteFormat, "YYYY-MM"),
   folder   |-> OrDefault(s.quarterlyNoteFolder, ""),
   template |-> OrDefault(s.quarterlyNoteTemplate, "")]

getQuarterlyNoteSettings(s) ==
  [format   |-> OrDefault(s.quarterlyNoteFormat, "[Q]Q-YYYY"),
   folder   |-> OrDefault(s.quarterlyNoteFolder, ""),
   template |-> OrDefault(s.quarterlyNoteTemplate, "")]

getYearlyNoteSettings(s) ==
  [format   |-> OrDefault(s.yearlyNoteFormat, "YYYY"),
   folder   |-> OrDefault(s.yearlyNoteFolder, ""),
   template |-> OrDefault(s.yearlyNoteTemplate, "")]

DEFAULT_YEARLY_NOTE_FORMAT == "YYYY"

getYearlyNoteSettingsPeriodicNotes(plugin) ==
  IF ~plugin.installed
  THEN [format |-> DEFAULT_YEARLY_NOTE_FORMAT, folder |-> "", template |-> ""]
  ELSE [format   |-> OrDefault(plugin.yearly.format, DEFAULT_YEARLY_NOTE_FORMAT),
        folder   |-> OrDefault(plugin.yearly.folder, ""),
        template |-> OrDefault(plugin.yearly.template, "")]

getYearlyNoteSettingsFallback == [format |-> "YYYY", folder |-> "", template |-> ""]

\* the settings the running implementation resolves a note with
NoteSettings ==
  CASE impl = "quarterly"      -> getQuarterlyNoteSettings(settings)
    [] impl = "yearlyPeriodic" -> getYearlyNoteSettingsPeriodicNotes(periodicNotes)
    [] impl = "yearlySettings" -> getYearlyNoteSettings(settings)
    [] OTHER                   -> getYearlyNoteSettingsFallback

Filename(date) == FormatDate(date, NoteSettings.format)

NotePath(date) == normalizePath(<<NoteSettings.folder, Filename(date) \o ".md">>)

FolderPath == normalizePath(<<NoteSettings.folder>>)

\* the path openOrCreate*Note looks the note up at; the periodic-notes
\* resolver writes it folder ? `${folder}/${filename}.md` : `${filename}.md`
LookupPath(date) ==
  IF impl = "yearlyPeriodic"
  THEN IF NoteSettings.folder # ""
       THEN normalizePath(<<NoteSettings.folder, Filename(date) \o ".md">>)
       ELSE normalizePath(<<Filename(date) \o ".md">>)
  ELSE normalizePath(<<NoteSettings.folder, Filename(date) \o ".md">>)

\* faulty variant: the folder and the filename joined, not normalized
CreatePathNotNormalized(date) == JoinPath(<<NoteSettings.folder, Filename(date) \o ".md">>)

\* the path tryToCreate*Note (createYearlyNoteFallback in the fallback
\* resolvers) computes for createFile
CreatePath(date) ==
  IF impl = "yearlyPeriodic"
  THEN IF NoteSettings.folder # ""
       THEN normalizePath(<<NoteSettings.folder, Filename(date) \o ".md">>)
       ELSE normalizePath(<<Filename(date) \o ".md">>)
  ELSE normalizePath(<<NoteSettings.folder, Filename(date) \o ".md">>)

Exists(path) == path \in DOMAIN vault

\* faulty variant: the year is left out of the key
getQuarterlyDateUIDNoYear(date) == "quarter-" \o ToString(quarter(date))

\* Date-UIDs: the key of a period instance
getQuarterlyDateUID(date) ==
  "quarter-" \o ToString(date.year) \o "-" \o ToString(quarter(date))

getYearlyDateUID(date) == "year-" \o ToString(date.year)

\* the period a resolution of the running implementation is for
PeriodUID(date) ==
  IF impl = "quarterly" THEN getQuarterlyDateUID(date) ELSE getYearlyDateUID(date)

----------------------------------------------------------------------------
(* moment: the target date with a time of day, add, format *)

IsLeapYear(y) == (y % 4 = 0 /\ y % 100 # 0) \/ y % 400 = 0

DaysInMonth(y, m) ==
  IF m = 2 THEN (IF IsLeapYear(y) THEN 29 ELSE 28)
  ELSE IF m \in {4, 6, 9, 11} THEN 30 ELSE 31

\* date.clone().set({hour, minute, second}) with the fields of now
WithClock(date, clock) ==
  [year |-> date.year, month |-> date.month, day |-> date.day,
   hour |-> clock.hour, minute |-> clock.minute, second |-> clock.second]

RECURSIVE AddDays(_, _)
AddDays(m, n) ==
  IF n = 0 THEN m
  ELSE IF n > 0
  THEN AddDays(IF m.day < DaysInMonth(m.year, m.month)
               THEN [m EXCEPT !.day = @ + 1]
               ELSE IF m.month < 12
               THEN [m EXCEPT !.day = 1, !.month = @ + 1]
               ELSE [m EXCEPT !.day = 1, !.month = 1, !.year = @ + 1], n - 1)
  ELSE AddDays(IF m.day > 1
               THEN [m EXCEPT !.day = @ - 1]
               ELSE IF m.month > 1
               THEN [m EXCEPT !.day = DaysInMonth(m.year, m.month - 1), !.month = @ - 1]
               ELSE [m EXCEPT !.day = 31, !.month = 12, !.year = @ - 1], n + 1)

\* months are added on the calendar, the day clamped to the month's length
AddMonths(m, n) ==
  LET total == m.year * 12 + (m.month - 1) + n
      y     == total \div 12
      mo    == (total % 12) + 1
      last  == DaysInMonth(y, mo)
  IN [m EXCEPT !.year = y, !.month = mo, !.day = IF m.day > last THEN last ELSE m.day]

AddSeconds(m, n) ==
  LET total == m.hour * 3600 + m.minute * 60 + m.second + n
      inDay == total % 86400
  IN AddDays([m EXCEPT !.hour = inDay \div 3600,
                       !.minute = (inDay % 3600) \div 60,
                       !.second = inDay % 60], total \div 86400)

\* moment's add(n, unit) for the unit letters the pattern [yqmwdhs] lets
\* through under the i flag; a letter moment knows no duration for adds nothing
MomentAdd(m, n, unit) ==
  CASE unit \in {"y", "Y"} -> AddMonths(m, 12 * n)
    [] unit = "Q"          -> AddMonths(m, 3 * n)
    [] unit = "M"          -> AddMonths(m, n)
    [] unit \in {"w", "W"} -> AddDays(m, 7 * n)
    [] unit = "d"          -> AddDays(m, n)
    [] unit \in {"h", "H"} -> AddSeconds(m, 3600 * n)
    [] unit = "m"          -> AddSeconds(m, 60 * n)
    [] unit \in {"s", "S"} -> AddSeconds(m, n)
    [] OTHER               -> m

\* moment's format on a date with a time of day
FormatMoment(m, format) ==
  IF format = "HH:mm" THEN Pad2(m.hour) \o ":" \o Pad2(m.minute)
  ELSE FormatDate(m, format)

----------------------------------------------------------------------------
(* Template expansion.  A text is a sequence of pieces: single characters,  *)
(* and the strings an earlier replace put in, which hold no brace.          *)

UpperCase == <<"A", "B", "C", "D", "E", "F", "G", "H", "I", "J", "K", "L", "M",
               "N", "O", "P", "Q", "R", "S", "T", "U", "V", "W", "X", "Y", "Z">>

LowerCase == <<"a", "b", "c", "d", "e", "f", "g", "h", "i", "j", "k", "l", "m",
               "n", "o", "p", "q", "r", "s", "t", "u", "v", "w", "x", "y", "z">>

\* the i flag: letters compare by their lower case
Lower(c) ==
  IF \E i \in DOMAIN UpperCase : UpperCase[i] = c
  THEN LowerCase[CHOOSE i \in DOMAIN UpperCase : UpperCase[i] = c]
  ELSE c

Digits == <<"0", "1", "2", "3", "4", "5", "6", "7", "8", "9">>

DigitValue(c) == (CHOOSE i \in DOMAIN Digits : Digits[i] = c) - 1

IsSpace(c) == c \in {" ", "\t", "\n"}

At(t, i, c) == i \in DOMAIN t /\ t[i] = c

RECURSIVE Join(_)
\* the string a text is
Join(t) == IF t = <<>> THEN "" ELSE Head(t) \o Join(Tail(t))

RECURSIVE SkipWhile(_, _, _)
\* the first position from i on whose piece is not in `class`
SkipWhile(t, i, class) ==
  IF i \in DOMAIN t /\ Lower(t[i]) \in class THEN SkipWhile(t, i + 1, class) ELSE i

\* \s* of the patterns; in the settings-based yearly resolver the literal
\* reads \\s*, a backslash and then any number of "s".  0 when it fails.
MatchGap(t, i, escaped) ==
  IF escaped
  THEN IF At(t, i, "\\") THEN SkipWhile(t, i + 1, {"s"}) ELSE 0
  ELSE SkipWhile(t, i, {" ", "\t", "\n"})

\* a word of the pattern at i, any case: the position after it, 0 for none
MatchWord(t, i, word) ==
  IF \A k \in DOMAIN word : (i + k - 1) \in DOMAIN t /\ Lower(t[i + k - 1]) = word[k]
  THEN i + Len(word) ELSE 0

\* "{{" at i: the position after it, 0 for none
MatchOpen(t, i) == IF At(t, i, "{") /\ At(t, i + 1, "{") THEN i + 2 ELSE 0

MatchClose(t, i) == IF At(t, i, "}") /\ At(t, i + 1, "}") THEN i + 2 ELSE 0

\* the parts of a pattern that follow a part that matched up to a; 0 stays 0
MatchGapFrom(t, a, escaped) == IF a = 0 THEN 0 ELSE MatchGap(t, a, escaped)

MatchWordFrom(t, a, word) == IF a = 0 THEN 0 ELSE MatchWord(t, a, word)

MatchCloseFrom(t, a) == IF a = 0 THEN 0 ELSE MatchClose(t, a)

\* /{{\s*word\s*}}/i at i: the position after the match, 0 for none
MatchSimple(t, i, word, escaped) ==
  MatchCloseFrom(t,
    MatchGapFrom(t,
      MatchWordFrom(t, MatchGapFrom(t, MatchOpen(t, i), escaped), word),
      escaped))

RECURSIVE ReplaceSimple(_, _, _, _, _)
\* text.replace(/{{\s*word\s*}}/gi, replacement), from position i on
ReplaceSimple(t, i, word, escaped, replacement) ==
  IF i > Len(t) THEN <<>>
  ELSE LET e == MatchSimple(t, i, word, escaped)
       IN IF e # 0
          THEN <<replacement>> \o ReplaceSimple(t, e, word, escaped, replacement)
          ELSE <<t[i]>> \o ReplaceSimple(t, i + 1, word, escaped, replacement)

Words ==
  [date      |-> <<"d", "a", "t", "e">>,
   time      |-> <<"t", "i", "m", "e">>,
   title     |-> <<"t", "i", "t", "l", "e">>,
   yesterday |-> <<"y", "e", "s", "t", "e", "r", "d", "a", "y">>,
   tomorrow  |-> <<"t", "o", "m", "o", "r", "r", "o", "w">>]

UnitLetters == {"y", "q", "m", "w", "d", "h", "s"}

RECURSIVE ParseDigits(_, _, _)
\* the number the digits t[from..to] write
ParseDigits(t, from, to) ==
  IF to < from THEN 0 ELSE 10 * ParseDigits(t, from, to - 1) + DigitValue(t[to])

RECURSIVE FindClose(_, _)
\* .+? before "}}": the first position from k on where "}}" starts, no line
\* break before it; 0 for none
FindClose(t, k) ==
  IF MatchClose(t, k) # 0 THEN k
  ELSE IF k \in DOMAIN t /\ t[k] # "\n" THEN FindClose(t, k + 1) ELSE 0

RECURSIVE TrimRight(_)
TrimRight(t) ==
  IF t # <<>> /\ IsSpace(t[Len(t)]) THEN TrimRight(SubSeq(t, 1, Len(t) - 1)) ELSE t

\* String.prototype.trim
Trim(t) == TrimRight(SubSeq(t, SkipWhile(t, 1, {" ", "\t", "\n"}), Len(t)))

NoMatch == [end |-> 0, calc |-> FALSE, timeDelta |-> 0, unit |-> "", momentFormat |-> <<>>]

\* (([+-]\d+)([yqmwdhs]))? at i.  Under the doubled backslashes \\d+ is a
\* backslash and then "d"s, the last of which the unit may have to take;
\* parseInt of such a delta is no number, and nothing is added.
MatchCalc(t, i, escaped) ==
  IF ~(At(t, i, "+") \/ At(t, i, "-")) THEN NoMatch
  ELSE IF escaped
  THEN IF ~At(t, i + 1, "\\") THEN NoMatch
       ELSE LET e == SkipWhile(t, i + 2, {"d"})
            IN IF e = i + 2 THEN NoMatch
               ELSE IF e \in DOMAIN t /\ Lower(t[e]) \in UnitLetters
               THEN [NoMatch EXCEPT !.end = e + 1, !.calc = TRUE, !.unit = t[e]]
               ELSE IF e > i + 3
               THEN [NoMatch EXCEPT !.end = e, !.calc = TRUE, !.unit = t[e - 1]]
               ELSE NoMatch
  ELSE LET e == SkipWhile(t, i + 1, {Digits[k] : k \in DOMAIN Digits})
       IN IF e = i + 1 \/ ~(e \in DOMAIN t /\ Lower(t[e]) \in UnitLetters) THEN NoMatch
          ELSE [NoMatch EXCEPT !.end = e + 1, !.calc = TRUE,
                               !.timeDelta = IF t[i] = "-" THEN 0 - ParseDigits(t, i + 1, e - 1)
                                             ELSE ParseDigits(t, i + 1, e - 1),
                               !.unit = t[e]]

\* (date|time) at b
MatchDateOrTime(t, b) ==
  IF b = 0 THEN 0
  ELSE IF MatchWord(t, b, Words.date) # 0 THEN MatchWord(t, b, Words.date)
  ELSE MatchWord(t, b, Words.time)

\* (:.+?)?}} at e, after the groups of calc
MatchFormat(t, e, calc) ==
  IF e = 0 THEN NoMatch
  ELSE IF /\ At(t, e, ":") /\ (e + 1) \in DOMAIN t /\ t[e + 1] # "\n"
          /\ FindClose(t, e + 2) # 0
  THEN [calc EXCEPT !.end = FindClose(t, e + 2) + 2,
                    !.momentFormat = SubSeq(t, e, FindClose(t, e + 2) - 1)]
  ELSE [calc EXCEPT !.end = MatchClose(t, e)]

\* \s*(:.+?)?}} after the groups of calc, which started at d
MatchAfterCalc(t, d, calc, escaped) ==
  MatchFormat(t, MatchGap(t, IF calc.calc THEN calc.end ELSE d, escaped), calc)

\* (([+-]\d+)([yqmwdhs]))?\s*(:.+?)?}} at d
MatchAfterWord(t, d, escaped) ==
  IF d = 0 THEN NoMatch ELSE MatchAfterCalc(t, d, MatchCalc(t, d, escaped), escaped)

\* /{{\s*(date|time)\s*(([+-]\d+)([yqmwdhs]))?\s*(:.+?)?}}/i at i
MatchParam(t, i, escaped) ==
  MatchAfterWord(t,
    MatchGapFrom(t, MatchDateOrTime(t, MatchGapFrom(t, MatchOpen(t, i), escaped)), escaped),
    escaped)

\* the replacer of the parametrized token
ParamReplacement(match, date, format, clock) ==
  LET currentDate == WithClock(date, clock)
      moved == IF match.calc THEN MomentAdd(currentDate, match.timeDelta, match.unit)
               ELSE currentDate
  IN IF match.momentFormat # <<>>
     THEN FormatMoment(moved, Join(Trim(Tail(match.momentFormat))))
     ELSE FormatMoment(moved, format)

RECURSIVE ReplaceParam(_, _, _, _, _, _)
\* text.replace(/{{\s*(date|time)...}}/gi, replacer), from position i on
ReplaceParam(t, i, escaped, date, format, clock) ==
  IF i > Len(t) THEN <<>>
  ELSE LET match == MatchParam(t, i, escaped)
       IN IF match.end # 0
          THEN <<ParamReplacement(match, date, format, clock)>>
                 \o ReplaceParam(t, match.end, escaped, date, format, clock)
          ELSE <<t[i]>> \o ReplaceParam(t, i + 1, escaped, date, format, clock)

\* the replace calls of createFile, in their order; each works on the
\* string the call before it returned (v)
ReplaceDate(t, filename, escaped) ==
  CHOOSE r \in {ReplaceSimple(v, 1, Words.date, escaped, filename) : v \in {t}} : TRUE

ReplaceTime(t, clock, escaped) ==
  CHOOSE r \in {ReplaceSimple(v, 1, Words.time, escaped, FormatMoment(clock, "HH:mm")) :
                  v \in {t}} : TRUE

ReplaceTitle(t, filename, escaped) ==
  CHOOSE r \in {ReplaceSimple(v, 1, Words.title, escaped, filename) : v \in {t}} : TRUE

ReplaceDateTime(t, date, format, clock, escaped) ==
  CHOOSE r \in {ReplaceParam(v, 1, escaped, date, format, clock) : v \in {t}} : TRUE

ReplaceYesterday(t, date, format) ==
  CHOOSE r \in {ReplaceSimple(v, 1, Words.yesterday, FALSE,
                               FormatDate(AddDays(date, -1), format)) : v \in {t}} : TRUE

ReplaceTomorrow(t, date, format) ==
  CHOOSE r \in {ReplaceSimple(v, 1, Words.tomorrow, FALSE,
                               FormatDate(AddDays(date, 1), format)) : v \in {t}} : TRUE

\* one replace call of the chain
ApplyReplace(call, t, date, filename, escaped) ==
  CASE call = "date"      -> ReplaceDate(t, filename, escaped)
    [] call = "time"      -> ReplaceTime(t, now, escaped)
    [] call = "title"     -> ReplaceTitle(t, filename, escaped)
    [] call = "dateTime"  -> ReplaceDateTime(t, date, NoteSettings.format, now, escaped)
    [] call = "yesterday" -> ReplaceYesterday(t, date, NoteSettings.format)
    [] call = "tomorrow"  -> ReplaceTomorrow(t, date, NoteSettings.format)

RECURSIVE ReplaceChain(_, _, _, _, _)
\* templateContents.replace(...).replace(...)...: the calls one after the other
ReplaceChain(calls, t, date, filename, escaped) ==
  IF calls = <<>> THEN t
  ELSE ReplaceChain(Tail(calls), ApplyReplace(Head(calls), t, date, filename, escaped),
                    date, filename, escaped)

\* templateContents.replace(...) chain of the periodic-notes yearly resolver
ExpandTemplate(text, date, filename) ==
  Join(ReplaceChain(<<"date", "time", "title", "dateTime", "yesterday", "tomorrow">>,
                    text, date, filename, FALSE))

\* templateContents.replace(...) chain of the settings-based yearly resolver
ExpandTemplateEscaped(text, date, filename) ==
  Join(ReplaceChain(<<"date", "time", "title", "dateTime">>, text, date, filename, TRUE))

DefaultHeader(filename) == "# " \o filename \o "\n"

----------------------------------------------------------------------------
(* One resolution *)

Fresh ==
  [pc       |-> "idle",    \* idle, prompt, declined, mkfolder, reading, creating,
                           \* opening, done, failed
   date     |-> mkDate(0, 0, 0),
   path     |-> "",        \* the path openOrCreate* computed
   createPath |-> "",      \* the path createFile works with
   log      |-> <<>>,      \* the host calls and their completions, in order
   fold     |-> NULL,      \* IFoldInfo of the template
   content  |-> "",        \* the data handed to vault.create
   note     |-> "",        \* the file handed to leaf.openFile
   cbFile   |-> "",        \* the file the callback got
   error    |-> "",        \* the error createFile ended with
   caller   |-> "none",    \* the promise openOrCreate* returned
   accept   |-> "none",    \* the promise onAccept returned to the dialog
   existingAtEntry |-> FALSE,  \* history: openOrCreate* found the file
   existingAtAccept |-> FALSE, \* history: the file was there when the user
                               \* accepted the prompt
   previous        |-> ""]     \* history: the file a resolution of the same
                               \* period, completed before this one started,
                               \* opened ("" when there was none)

Append2(log, a, b) == Append(Append(log, a), b)

Has(log, ev) == \E i \in 1..Len(log) : log[i] = ev

Count(log, ev) == Cardinality({i \in 1..Len(log) : log[i] = ev})

\* the promise the running createFile settles: onAccept's when the dialog
\* called it, otherwise the one the caller of the resolver awaits
Settle(rec, how) ==
  IF rec.accept = "pending" THEN [rec EXCEPT !.accept = how]
  ELSE [rec EXCEPT !.caller = how]

\* faulty variant: leaf.openFile is not awaited, the callback runs at once
OpenInLeafNotAwaited(rec, file) ==
  [rec EXCEPT !.pc = "opening", !.note = file, !.cbFile = file,
              !.log = Append(Append2(@, "leaf", "openFile"), "cb")]

\* leaf = inNewSplit ? splitActiveLeaf() : getUnpinnedLeaf(); then the call of
\* leaf.openFile(file, {active: true}), awaited
OpenInLeaf(rec, file) ==
  [rec EXCEPT !.pc = "opening", !.note = file, !.log = Append2(@, "leaf", "openFile")]

\* throw out of createFile
Throw(rec, error) ==
  Settle([rec EXCEPT !.pc = "failed", !.error = error], "rejected")

\* the call of vault.create(path, data), awaited
CallCreate(rec, data) ==
  [rec EXCEPT !.pc = "creating", !.content = data, !.log = Append(@, "create")]

HasTemplates == impl \in {"yearlyPeriodic", "yearlySettings"}

HasCatch == impl \in {"quarterly", "yearlyPeriodic", "yearlySettings", "yearlyFallbackCatch"}

\* const fileContent = templateContents.replace(...)...; then the call of
\* vault.create(path, fileContent || <default>)
CreateFromTemplate(rec, contents, foldInfo) ==
  LET filename == Filename(rec.date)
      withFold == [rec EXCEPT !.fold = foldInfo]
  IN IF impl = "yearlySettings"
     THEN LET fileContent == ExpandTemplateEscaped(contents, rec.date, filename)
          IN CallCreate(withFold, IF fileContent = "" THEN DefaultHeader(filename) ELSE fileContent)
     ELSE LET fileContent == ExpandTemplate(contents, rec.date, filename)
          IN CallCreate(withFold, IF fileContent = "" THEN "" ELSE fileContent)

\* getTemplateInfo up to its first await
getTemplateInfo(rec) ==
  LET templatePath == normalizePath(<<NoteSettings.template>>)
  IN IF templatePath = "/" \/ templatePath = ""
     THEN CreateFromTemplate(rec, <<>>, NULL)
     ELSE IF ~templateFile.exists
     THEN CreateFromTemplate(rec, <<>>, NULL)
     ELSE [rec EXCEPT !.pc = "reading", !.log = Append(@, "cachedRead")]

\* createYearlyNoteFallback, then the rest of its caller's createFile
createYearlyNoteFallback(rec) ==
  LET path == CreatePath(rec.date)
      own  == [rec EXCEPT !.createPath = path]
  IN IF Exists(path) THEN OpenInLeaf(own, path) ELSE CallCreate(own, "")

\* faulty variant: createFile does not look for the file before it creates
createFileNoRecheck(rec) ==
  IF impl \in {"yearlyFallback", "yearlyFallbackCatch"}
  THEN CallCreate([rec EXCEPT !.createPath = CreatePath(rec.date)], "")
  ELSE CallCreate(rec, DefaultHeader(Filename(rec.date)))

\* createFile of tryToCreate*Note, up to its first await
createFile(rec) ==
  LET path == rec.createPath
  IN CASE impl = "quarterly" ->
            IF Exists(path) THEN OpenInLeaf(rec, path)
            ELSE CallCreate(rec, DefaultHeader(Filename(rec.date)))
       [] impl = "yearlyPeriodic" ->
            IF Exists(path) THEN OpenInLeaf(rec, path)
            ELSE IF NoteSettings.folder # "" /\ FolderPath \notin folders
            THEN [rec EXCEPT !.pc = "mkfolder", !.log = Append(@, "createFolder")]
            ELSE getTemplateInfo(rec)
       [] impl = "yearlySettings" ->
            IF Exists(path) THEN OpenInLeaf(rec, path)
            ELSE getTemplateInfo(rec)
       [] OTHER -> createYearlyNoteFallback(rec)

\* const path = normalizePath(...) of tryToCreate*Note; the fallback
\* resolvers leave the path to createYearlyNoteFallback
WithCreatePath(rec) ==
  IF impl \in {"yearlyFallback", "yearlyFallbackCatch"} THEN rec
  ELSE [rec EXCEPT !.createPath = CreatePath(rec.date)]

\* faulty variant: the confirmation flag is not read
tryToCreateNoteNoGate(rec) == createFile(WithCreatePath(rec))

\* faulty variant: the pane is acquired before the dialog is shown
tryToCreateNoteEagerLeaf(rec) ==
  IF settings.shouldConfirmBeforeCreate
  THEN [WithCreatePath(rec) EXCEPT !.pc = "prompt", !.log = Append2(@, "leaf", "prompt"),
                                   !.caller = "resolved"]
  ELSE createFile(WithCreatePath(rec))

\* tryToCreate*Note: the path, then the confirmation gate
tryToCreateNote(rec) ==
  IF settings.shouldConfirmBeforeCreate
  THEN [WithCreatePath(rec) EXCEPT !.pc = "prompt", !.log = Append(@, "prompt"),
                                   !.caller = "resolved"]
  ELSE createFile(WithCreatePath(rec))

\* faulty variant: the existing file is not looked up
openOrCreateNoteNoLookup(rec) ==
  tryToCreateNote([rec EXCEPT !.path = LookupPath(rec.date)])

\* openOrCreate*Note, up to its first await
openOrCreateNote(rec) ==
  LET path == LookupPath(rec.date)
      own  == [rec EXCEPT !.path = path]
  IN IF Exists(path) THEN OpenInLeaf(own, path) ELSE tryToCreateNote(own)

\* faulty variant: the catch block does not rethrow
CatchErrorSwallowed(rec, error) ==
  LET path == rec.createPath
  IN IF HasCatch /\ error = "File already exists" /\ Exists(path)
     THEN OpenInLeaf(rec, path)
     ELSE Settle([rec EXCEPT !.pc = "done"], "resolved")

\* the catch block of createFile (the implementations without one rethrow)
CatchError(rec, error) ==
  LET path == rec.createPath
  IN IF HasCatch /\ error = "File already exists" /\ Exists(path)
     THEN OpenInLeaf(rec, path)
     ELSE Throw(rec, error)

\* faulty variant: the fold info of the template is dropped
AfterCreateNoFold(rec) == OpenInLeaf(rec, rec.createPath)

\* createFile after vault.create returned the note: fold info, then the pane
AfterCreate(rec) ==
  LET note == rec.createPath
  IN OpenInLeaf(IF HasTemplates /\ rec.fold # NULL
                THEN [rec EXCEPT !.log = Append(@, "foldSave")]
                ELSE rec, note)

\* after leaf.openFile resolved: cb?.(file), return
AfterOpen(rec) ==
  Settle([rec EXCEPT !.pc = "done", !.cbFile = rec.note,
                     !.log = Append2(@, "openFile:ok", "cb")], "resolved")

----------------------------------------------------------------------------
(* The note index: the quarterlyNotes and yearlyNotes stores, rebuilt by    *)
(* scanning the folder the periodic-notes settings name                     *)

DEFAULT_QUARTERLY_NOTE_FORMAT == "YYYY-[Q]Q"

\* getQuarterlyNoteSettings of the stores: format and folder of periodic-notes
getQuarterlyNoteSettingsPeriodicNotes(plugin) ==
  IF ~plugin.installed
  THEN [format |-> DEFAULT_QUARTERLY_NOTE_FORMAT, folder |-> ""]
  ELSE [format |-> OrDefault(plugin.quarterly.format, DEFAULT_QUARTERLY_NOTE_FORMAT),
        folder |-> OrDefault(plugin.quarterly.folder, "")]

\* the files the vault may hold: the folder as its segments, the basename,
\* the extension
mkFile(folder, basename) == [folder |-> folder, basename |-> basename, extension |-> "md"]

StoreFiles ==
  { mkFile(<<"Periodic">>, "2026-Q1"),
    mkFile(<<"Periodic", "old">>, "2026-Q1"),
    mkFile(<<"Periodic">>, "Q1-2026"),
    mkFile(<<"Periodic">>, "2026"),
    mkFile(<<>>, "2026-Q2") }

FilePath(file) == normalizePath(file.folder \o <<file.basename \o "." \o file.extension>>)

\* the dates a displayed month is drawn from
StoreDates == {mkDate(2026, 2, 1), mkDate(2026, 4, 1)}

\* dates of several quarters and years, to compare date-UIDs on
UIDDates ==
  {mkDate(2026, 1, 31), mkDate(2026, 2, 1), mkDate(2026, 3, 31), mkDate(2026, 4, 1),
   mkDate(2026, 12, 31), mkDate(2025, 1, 31), mkDate(2025, 11, 15), mkDate(2027, 1, 1)}

\* the dates a strict parse of a basename can give: the first day of a period
PeriodStarts == {mkDate(y, m, 1) : y \in {2025, 2026}, m \in {1, 4, 7, 10}}

\* an invalid moment
NoDate == mkDate(0, 0, 0)

\* window.moment(file.basename, filenameFormat, true): the date the basename
\* is the rendering of (the start of its period), NoDate when it is none

ParseStrict(basename, format) ==
  IF \E d \in PeriodStarts : FormatDate(d, format) = basename
  THEN CHOOSE d \in PeriodStarts :
         /\ FormatDate(d, format) = basename
         /\ \A e \in PeriodStarts : FormatDate(e, format) = basename => d.month <= e.month
  ELSE NoDate

getDateFromQuarterlyFile(file) ==
  ParseStrict(file.basename, getQuarterlyNoteSettingsPeriodicNotes(periodicNotes).format)

getDateFromYearlyFile(file) ==
  ParseStrict(file.basename, getYearlyNoteSettingsPeriodicNotes(periodicNotes).format)

\* Vault.recurseChildren(folder, ...): the files below the folder
recurseChildren(folder) ==
  {f \in StoreFiles : /\ FilePath(f) \in DOMAIN vault
                      /\ f.folder # <<>>
                      /\ f.folder[1] = folder}

\* the records a scan can return: one file for each date-UID found; which
\* one of two files of one period stays depends on the order of the walk
ScanResults(folder, uidOf) ==
  IF folder = "" THEN {<< >>}
  ELSE IF normalizePath(<<folder>>) \notin folders THEN {<< >>}
  ELSE LET files == DOMAIN uidOf
           uids  == {uidOf[f] : f \in files}
       IN {notes \in [uids -> {FilePath(f) : f \in files}] :
             \A uid \in uids : \E f \in files : uidOf[f] = uid /\ notes[uid] = FilePath(f)}

getAllQuarterlyNotes ==
  LET folder == getQuarterlyNoteSettingsPeriodicNotes(periodicNotes).folder
      dated  == {f \in recurseChildren(folder) : getDateFromQuarterlyFile(f) # NoDate}
      uidOf  == [f \in dated |-> getQuarterlyDateUID(getDateFromQuarterlyFile(f))]
  IN ScanResults(folder, uidOf)

getAllYearlyNotes ==
  LET folder == getYearlyNoteSettingsPeriodicNotes(periodicNotes).folder
      dated  == {f \in recurseChildren(folder) : getDateFromYearlyFile(f) # NoDate}
      uidOf  == [f \in dated |-> getYearlyDateUID(getDateFromYearlyFile(f))]
  IN ScanResults(folder, uidOf)

\* writable(null): the store before its first reindex
NullStore == [indexed |-> FALSE, notes |-> << >>]

\* faulty variant: the scan is merged into the value the store holds
StoreSetMerged(old, notes) == [indexed |-> TRUE, notes |-> notes @@ old.notes]

\* store.set(notes)
StoreSet(old, notes) == [indexed |-> TRUE, notes |-> notes]

\* quarterlyNotes[getQuarterlyDateUID(date)] ?? null; a property read on the
\* null of a store never indexed throws
getQuarterlyNote(date, store) ==
  IF ~store.indexed THEN "TypeError"
  ELSE IF getQuarterlyDateUID(date) \in DOMAIN store.notes
  THEN store.notes[getQuarterlyDateUID(date)] ELSE NULL

getYearlyNote(date, store) ==
  IF ~store.indexed THEN "TypeError"
  ELSE IF getYearlyDateUID(date) \in DOMAIN store.notes
  THEN store.notes[getYearlyDateUID(date)] ELSE NULL

\* getAllMonthlyNotes of obsidian-daily-notes-interface: the monthly notes
\* its scan of the vault finds
getAllMonthlyNotes == {<< >>, ("month-2026-3" :> "2026-03.md")}

\* getMonthlyNote(date, monthlyNotes) of the same library
getMonthlyNote(date, store) ==
  LET uid == "month-" \o ToString(date.year) \o "-" \o ToString(date.month)
  IN IF ~store.indexed THEN "TypeError"
     ELSE IF uid \in DOMAIN store.notes THEN store.notes[uid] ELSE NULL

\* what a scan comes to: the record it returns, or an error thrown
ScanReturns(results) == {[threw |-> FALSE, notes |-> notes] : notes \in results}

ScanThrows == [threw |-> TRUE, notes |-> << >>]

\* getAllMonthlyNotes() throws when it does not find the folder of the
\* monthly notes
MonthlyScans == ScanReturns(getAllMonthlyNotes) \cup {ScanThrows}

\* let hasError = false, and no reindex has failed
NoError == [hasError |-> FALSE, run |-> 0, logged |-> 0]

NoErrors == [monthly |-> NoError, quarterly |-> NoError, yearly |-> NoError]

\* faulty variant: every failure is logged
ShouldLogEvery(e) == TRUE

\* if (!hasError) console.log(...)
ShouldLog(e) == ~e.hasError

\* reindex, the value of the store: store.set(notes) in try,
\* store.set({}) in catch
reindex(old, scan) == StoreSet(old, IF scan.threw THEN << >> ELSE scan.notes)

\* reindex, hasError and the log: run counts the failures in a row, logged
\* the lines console.log wrote for them
reindexError(e, scan) ==
  IF scan.threw
  THEN [hasError |-> TRUE,
        run      |-> IF e.run < 2 THEN e.run + 1 ELSE e.run,
        logged   |-> IF ShouldLog(e) /\ e.logged < 2 THEN e.logged + 1 ELSE e.logged]
  ELSE NoError

\* monthlyNotes.reindex(); quarterlyNotes.reindex(); yearlyNotes.reindex()
reindexAll ==
  \E m \in MonthlyScans, q \in ScanReturns(getAllQuarterlyNotes),
     y \in ScanReturns(getAllYearlyNotes) :
    /\ monthlyNotes' = reindex(monthlyNotes, m)
    /\ quarterlyNotes' = reindex(quarterlyNotes, q)
    /\ yearlyNotes' = reindex(yearlyNotes, y)
    /\ storeErrors' = [monthly   |-> reindexError(storeErrors.monthly, m),
                       quarterly |-> reindexError(storeErrors.quarterly, q),
                       yearly    |-> reindexError(storeErrors.yearly, y)]

\* nothing looked up yet
NoIndicators == [date |-> NoDate, quarterly |-> NULL, yearly |-> NULL]

----------------------------------------------------------------------------
(* The calendar component: today, displayedMonth and the heartbeat *)

\* moment's a.isSame(b, unit)
isSame(a, b, unit) ==
  CASE unit = "year"  -> a.year = b.year
    [] unit = "month" -> a.year = b.year /\ a.month = b.month
    [] unit = "day"   -> a.year = b.year /\ a.month = b.month /\ a.day = b.day

\* the component as it is mounted: displayedMonth defaults to today
Mounted(m) == [today |-> m, displayedMonth |-> m]

\* today = window.moment()
WithToday(c, m) == [c EXCEPT !.today = m]

\* the update cycle at rest: the component is not dirty, no flush runs
NoFlush == [dirty |-> FALSE, flushing |-> FALSE, pending |-> FALSE, seen |-> FALSE, passes |-> 0]

\* $$invalidate: an assignment to a variable of the component, or a store
\* it subscribes to calling back, marks the component dirty
Invalidate(f) == [f EXCEPT !.dirty = TRUE]

\* no heartbeat has fired
NoBeat == [elapsed |-> 0, last |-> "none", showedToday |-> FALSE, dayChanged |-> FALSE]

----------------------------------------------------------------------------
(* The decoration of the calendar's header by afterUpdate.  The header is   *)
(* the sequence of its text nodes in document order; a node that sits in a  *)
(* wrapper span carries the wrapper's class, its indicator elements (by     *)
(* their title) and its click handler.                                      *)

Components == {"Calendar.svelte", "part_004"}

MonthNames == <<"Jan", "Feb", "Mar", "Apr", "May", "Jun",
                "Jul", "Aug", "Sep", "Oct", "Nov", "Dec">>

\* a text node no wrapper is around
TextNode(node, text) ==
  [node |-> node, text |-> text, wrapper |-> "", dots |-> <<>>, onclick |-> ""]

\* the header as CalendarBase renders it: month, year, the reset button
Rendered(m) ==
  <<TextNode("month", MonthNames[m.month]), TextNode("year", ToString(m.year)),
    TextNode("reset", "Today")>>

\* an update of CalendarBase: the data of its own text nodes is set anew,
\* wherever the nodes are by now
Render(d, m) ==
  [i \in DOMAIN d |->
     IF d[i].node = "month" THEN [d[i] EXCEPT !.text = MonthNames[m.month]]
     ELSE IF d[i].node = "year" THEN [d[i] EXCEPT !.text = ToString(m.year)]
     ELSE d[i]]

\* the constants afterUpdate computes before it walks the header
PassContext(m, monthly, quarterly, yearly) ==
  [monthShort       |-> MonthNames[m.month],
   quarter          |-> "Q" \o ToString(quarter(m)),
   year             |-> ToString(m.year),
   hasMonthlyNote   |-> getMonthlyNote(m, monthly) # NULL,
   hasQuarterlyNote |-> getQuarterlyNote(m, quarterly) # NULL,
   hasYearlyNote    |-> getYearlyNote(m, yearly) # NULL]

\* the title createDotIndicator / updateDotIndicator gives an indicator
DotTitle(exists) == IF exists THEN "Note exists" ELSE "No note"

\* faulty variant: the indicator is appended and the old one is left
AppendDot(u, exists) == [u EXCEPT !.dots = @ \o <<DotTitle(exists)>>]

\* existingDot.remove() on the first indicator, if any, then
\* parent.appendChild(createDotIndicator(exists))
ReplaceDot(u, exists) ==
  [u EXCEPT !.dots = (IF @ = <<>> THEN <<>> ELSE Tail(@)) \o <<DotTitle(exists)>>]

\* updateDotIndicator(parent, exists): the first indicator is restyled, one
\* is appended when there is none
updateDotIndicator(u, exists) ==
  [u EXCEPT !.dots = IF @ = <<>> THEN <<DotTitle(exists)>>
                     ELSE [@ EXCEPT ![1] = DotTitle(exists)]]

\* the span inserted after the month wrapper
QuarterSpan(ctx) ==
  [node |-> "quarter", text |-> ctx.quarter, wrapper |-> "quarter",
   dots |-> <<DotTitle(ctx.hasQuarterlyNote)>>, onclick |-> "quarterly"]

InsertAfter(d, i, u) == SubSeq(d, 1, i) \o <<u>> \o SubSeq(d, i + 1, Len(d))

\* Calendar.svelte: if (node.nodeValue === monthShort) ...
VisitMonth(d, i, ctx) ==
  IF d[i].text # ctx.monthShort THEN d
  ELSE IF d[i].wrapper = "month"
  THEN [d EXCEPT ![i] = ReplaceDot([@ EXCEPT !.onclick = "monthly"], ctx.hasMonthlyNote)]
  ELSE InsertAfter([d EXCEPT ![i] = [@ EXCEPT !.wrapper = "month", !.onclick = "monthly",
                                              !.dots = <<DotTitle(ctx.hasMonthlyNote)>>]],
                   i, QuarterSpan(ctx))

\* Calendar.svelte: if (node.nodeValue === year) ...
VisitYear(d, i, ctx) ==
  IF d[i].text # ctx.year THEN d
  ELSE IF d[i].wrapper = "year"
  THEN [d EXCEPT ![i] = ReplaceDot([@ EXCEPT !.onclick = "yearly"], ctx.hasYearlyNote)]
  ELSE [d EXCEPT ![i] = [@ EXCEPT !.wrapper = "year", !.onclick = "yearly",
                                   !.dots = <<DotTitle(ctx.hasYearlyNote)>>]]

\* Calendar.svelte: if (node.nodeValue === quarter) ...
VisitQuarter(d, i, ctx) ==
  IF d[i].text = ctx.quarter /\ d[i].wrapper = "quarter"
  THEN [d EXCEPT ![i] = ReplaceDot(@, ctx.hasQuarterlyNote)]
  ELSE d

RECURSIVE Walk(_, _, _)
\* Calendar.svelte: while (node = walker.nextNode()) { ... }, from node i on
Walk(d, i, ctx) ==
  IF i > Len(d) THEN d
  ELSE CHOOSE r \in {Walk(q, i + 1, ctx) :
                        q \in {VisitQuarter(y, i, ctx) :
                                 y \in {VisitYear(m, i, ctx) :
                                          m \in {VisitMonth(d, i, ctx)}}}} : TRUE

\* container.querySelector(".extended-calendar-<kind>-wrapper"): the first
\* wrapper of the kind, 0 for none
FirstWrapper(d, kind) ==
  IF \E i \in DOMAIN d : d[i].wrapper = kind
  THEN CHOOSE i \in DOMAIN d : d[i].wrapper = kind /\ \A j \in 1..(i - 1) : d[j].wrapper # kind
  ELSE 0

\* part_004: the wrappers that exist are brought up to date
UpdateExisting(d, ctx) ==
  [i \in DOMAIN d |->
     IF i = FirstWrapper(d, "month") THEN updateDotIndicator(d[i], ctx.hasMonthlyNote)
     ELSE IF i = FirstWrapper(d, "quarter")
     THEN updateDotIndicator([d[i] EXCEPT !.text = ctx.quarter, !.onclick = "quarterly"],
                             ctx.hasQuarterlyNote)
     ELSE IF i = FirstWrapper(d, "year") THEN updateDotIndicator(d[i], ctx.hasYearlyNote)
     ELSE d[i]]

\* part_004: if (node.nodeValue === monthShort && !existingMonthWrapper) ...
CreateMonth(d, i, ctx, existing) ==
  IF d[i].text = ctx.monthShort /\ ~existing.month /\ d[i].wrapper # "month"
  THEN InsertAfter([d EXCEPT ![i] = [@ EXCEPT !.wrapper = "month", !.onclick = "monthly",
                                              !.dots = <<DotTitle(ctx.hasMonthlyNote)>>]],
                   i, QuarterSpan(ctx))
  ELSE d

\* part_004: if (node.nodeValue === year && !existingYearWrapper) ...
CreateYear(d, i, ctx, existing) ==
  IF d[i].text = ctx.year /\ ~existing.year /\ d[i].wrapper # "year"
  THEN [d EXCEPT ![i] = [@ EXCEPT !.wrapper = "year", !.onclick = "yearly",
                                   !.dots = <<DotTitle(ctx.hasYearlyNote)>>]]
  ELSE d

RECURSIVE WalkCreate(_, _, _, _)
\* part_004: while (node = walker.nextNode()) { ... }, from node i on
WalkCreate(d, i, ctx, existing) ==
  IF i > Len(d) THEN d
  ELSE CHOOSE r \in {WalkCreate(y, i + 1, ctx, existing) :
                        y \in {CreateYear(m, i, ctx, existing) :
                                 m \in {CreateMonth(d, i, ctx, existing)}}} : TRUE

\* part_004: the body of afterUpdate after the lookups
UpdateThenCreate(d, ctx) ==
  IF FirstWrapper(d, "month") = 0 \/ FirstWrapper(d, "quarter") = 0
       \/ FirstWrapper(d, "year") = 0
  THEN CHOOSE r \in {WalkCreate(u, 1, ctx, e) :
                        u \in {UpdateExisting(d, ctx)},
                        e \in {[month |-> FirstWrapper(d, "month") # 0,
                                 year  |-> FirstWrapper(d, "year") # 0]}} : TRUE
  ELSE UpdateExisting(d, ctx)

\* the body of afterUpdate after the lookups, on the header d
Decorate(d, ctx) ==
  IF component = "part_004" THEN UpdateThenCreate(d, ctx) ELSE Walk(d, 1, ctx)

\* faulty variant: an afterUpdate callback runs again within one flush
ShouldCallAgain(f) == TRUE

\* flush of the framework: an afterUpdate callback it has already called in
\* this flush is not called again
ShouldCall(f) == ~f.seen

----------------------------------------------------------------------------
(* The resolver's behaviours *)

\* no template text is being looked at on its own
NoExpansion == [stage |-> "idle", date |-> mkDate(0, 0, 0), text |-> <<>>, current |-> <<>>]

----------------------------------------------------------------------------
(* Initial state *)

Init ==
  /\ impl \in Impls
  /\ \E confirm \in BOOLEAN, folder \in FolderSettings, template \in TemplateSettings,
        installed \in BOOLEAN :
       /\ installed \/ (impl = "yearlyPeriodic" /\ folder = "" /\ template = "")
       /\ settings = [shouldConfirmBeforeCreate |-> confirm,
                      quarterlyNoteFormat   |-> "",
                      quarterlyNoteFolder   |-> folder,
                      quarterlyNoteTemplate |-> template,
                      yearlyNoteFormat      |-> "",
                      yearlyNoteFolder      |-> folder,
                      yearlyNoteTemplate    |-> template]
       /\ periodicNotes =
            IF installed
            THEN [installed |-> TRUE,
                  quarterly |-> [format |-> "", folder |-> folder],
                  yearly |-> [format |-> "", folder |-> folder, template |-> template]]
            ELSE NoPlugin
       /\ folders \in SUBSET ({folder} \ {""})
       /\ templateFile \in
            IF template = "" THEN {NoTemplate}
            ELSE {NoTemplate} \cup
                 {[exists |-> TRUE, contents |-> c, fold |-> f] :
                    c \in TemplateTexts, f \in FoldInfos}
  /\ vault = << >>
  /\ foldState = << >>
  /\ res = [s \in Slots |-> Fresh]
  /\ resolved = << >>
  /\ now = Midnight
  /\ expander = NoExpansion
  /\ quarterlyNotes = NullStore
  /\ yearlyNotes = NullStore
  /\ storeOp = "none"
  /\ indicators = NoIndicators
  /\ monthlyNotes = NullStore
  /\ storeErrors = NoErrors
  /\ component = "Calendar.svelte"
  /\ dom = <<>>
  /\ flush = NoFlush
  /\ wallClock = WithClock(mkDate(2026, 1, 31), Midnight)
  /\ calendar = Mounted(wallClock)
  /\ beat = NoBeat

----------------------------------------------------------------------------
(* Actions *)

\* a slot holds no running resolution: a new call may take it
Free(s) == res[s].pc \in {"idle", "done", "failed", "declined"}

\* a caller (a click on a period label, a command) resolves the note of `date`
Start(s, date) ==
  /\ Free(s)
  /\ s = "b" => ~Free("a")
  /\ res' = [res EXCEPT ![s] =
               openOrCreateNote(
                 [Fresh EXCEPT !.date = date,
                               !.caller = "pending",
                               !.existingAtEntry = Exists(NotePath(date)),
                               !.previous = IF PeriodUID(date) \in DOMAIN resolved
                                            THEN resolved[PeriodUID(date)] ELSE ""])]
  /\ UNCHANGED <<impl, settings, periodicNotes, vault, folders, templateFile, foldState, resolved>>
  /\ UNCHANGED nonResolverVars

\* the user accepts the confirmation dialog, which calls onAccept
Accept(s) ==
  /\ res[s].pc = "prompt"
  /\ res' = [res EXCEPT ![s] =
               createFile([res[s] EXCEPT !.log = Append(@, "accept"),
                                         !.accept = "pending",
                                         !.existingAtAccept = Exists(NotePath(res[s].date))])]
  /\ UNCHANGED <<impl, settings, periodicNotes, vault, folders, templateFile, foldState, resolved>>
  /\ UNCHANGED nonResolverVars

\* the user declines or dismisses the confirmation dialog
Decline(s) ==
  /\ res[s].pc = "prompt"
  /\ res' = [res EXCEPT ![s] = [@ EXCEPT !.pc = "declined", !.log = Append(@, "decline")]]
  /\ UNCHANGED <<impl, settings, periodicNotes, vault, folders, templateFile, foldState, resolved>>
  /\ UNCHANGED nonResolverVars

\* vault.createFolder completes
FolderDone(s) ==
  /\ res[s].pc = "mkfolder"
  /\ IF FolderPath \in folders
     THEN /\ res' = [res EXCEPT ![s] =
                       CatchError([@ EXCEPT !.log = Append(@, "createFolder:error")],
                                  "Folder already exists")]
          /\ UNCHANGED folders
     ELSE /\ folders' = folders \cup {FolderPath}
          /\ res' = [res EXCEPT ![s] =
                       getTemplateInfo([@ EXCEPT !.log = Append(@, "createFolder:ok")])]
  /\ UNCHANGED <<impl, settings, periodicNotes, vault, templateFile, foldState, resolved>>
  /\ UNCHANGED nonResolverVars

\* vault.cachedRead and foldManager.load of the template complete
ReadDone(s) ==
  /\ res[s].pc = "reading"
  /\ \/ res' = [res EXCEPT ![s] =
                  CreateFromTemplate([@ EXCEPT !.log = Append(@, "cachedRead:ok")],
                                     templateFile.contents, templateFile.fold)]
     \/ res' = [res EXCEPT ![s] =
                  CreateFromTemplate([@ EXCEPT !.log = Append2(@, "cachedRead:error", "notice")],
                                     <<>>, NULL)]
  /\ UNCHANGED <<impl, settings, periodicNotes, vault, folders, templateFile, foldState, resolved>>
  /\ UNCHANGED nonResolverVars

\* vault.create completes
CreateDone(s) ==
  /\ res[s].pc = "creating"
  /\ LET path == res[s].createPath
     IN \/ /\ Exists(path)
           /\ res' = [res EXCEPT ![s] =
                        CatchError([@ EXCEPT !.log = Append(@, "create:exists")],
                                   "File already exists")]
           /\ UNCHANGED <<vault, foldState>>
        \/ /\ ~Exists(path)
           /\ NoteSettings.folder = "" \/ FolderPath \in folders
           /\ vault' = (path :> res[s].content) @@ vault
           /\ foldState' = IF HasTemplates /\ res[s].fold # NULL
                           THEN (path :> res[s].fold) @@ foldState ELSE foldState
           /\ res' = [res EXCEPT ![s] =
                        AfterCreate([@ EXCEPT !.log = Append(@, "create:ok")])]
        \/ /\ ~Exists(path)
           /\ res' = [res EXCEPT ![s] =
                        CatchError([@ EXCEPT !.log = Append(@, "create:error")],
                                   "Write failed")]
           /\ UNCHANGED <<vault, foldState>>
  /\ UNCHANGED <<impl, settings, periodicNotes, folders, templateFile, resolved>>
  /\ UNCHANGED nonResolverVars

\* leaf.openFile completes
OpenDone(s) ==
  /\ res[s].pc = "opening"
  /\ res' = [res EXCEPT ![s] = AfterOpen(@)]
  /\ resolved' = (PeriodUID(res[s].date) :> res[s].note) @@ resolved
  /\ UNCHANGED <<impl, settings, periodicNotes, vault, folders, templateFile, foldState>>
  /\ UNCHANGED nonResolverVars

\* another writer (sync, another plugin, the user) creates the note of `date`
ExternalCreate(date) ==
  /\ ~Exists(NotePath(date))
  /\ vault' = (NotePath(date) :> "external") @@ vault
  /\ folders' = IF NoteSettings.folder = "" THEN folders ELSE folders \cup {FolderPath}
  /\ UNCHANGED <<impl, settings, periodicNotes, templateFile, foldState, res, resolved>>
  /\ UNCHANGED nonResolverVars

Next ==
  \/ \E s \in Slots, date \in Dates : Start(s, date)
  \/ \E s \in Slots : Accept(s)
  \/ \E s \in Slots : Decline(s)
  \/ \E s \in Slots : FolderDone(s)
  \/ \E s \in Slots : ReadDone(s)
  \/ \E s \in Slots : CreateDone(s)
  \/ \E s \in Slots : OpenDone(s)
  \/ \E date \in Dates : ExternalCreate(date)

Spec == Init /\ [][Next]_vars

----------------------------------------------------------------------------
(* The template expander on its own: one template text, one target date,   *)
(* and the replace calls of createFile applied to it one after the other    *)

ExpandDates ==
  {mkDate(2026, 1, 31), mkDate(2026, 12, 31), mkDate(2026, 1, 1), mkDate(2024, 2, 28)}

\* "" is the default format, "YYYY"
ExpandFormats == {"", "YYYY-MM-DD"}

\* "# " token "!"
Wrap(token) == <<"#", " ">> \o token \o <<"!">>

\* {{date}} and {{title}}, in some case and with some whitespace
DateTitleTokens ==
  { Braces(Words.date),
    Braces(<<" ", "D", "a", "t", "e", " ">>),
    Braces(Words.title),
    Braces(<<"\t", "T", "I", "T", "L", "E">>) }

DatePlus1d == Braces(Words.date \o <<"+", "1", "d">>)

DateYYYY == Braces(Words.date \o <<":", "Y", "Y", "Y", "Y">>)

Yesterday == Braces(Words.yesterday)

Tomorrow == Braces(<<" ", "T", "o", "m", "o", "r", "r", "o", "w", " ">>)

\* other tokens the patterns are written for: {{time}}, {{date-1d}},
\* {{date+1h}}, {{date+1y}}, {{ date +1d : YYYY-MM-DD }}, {{time:HH:mm}}
OtherTokens ==
  { Braces(Words.time),
    Braces(Words.date \o <<"-", "1", "d">>),
    Braces(Words.date \o <<"+", "1", "h">>),
    Braces(Words.date \o <<"+", "1", "y">>),
    Braces(<<" ">> \o Words.date \o <<" ", "+", "1", "d", " ", ":", " ",
             "Y", "Y", "Y", "Y", "-", "M", "M", "-", "D", "D", " ">>),
    Braces(Words.time \o <<":", "H", "H", ":", "m", "m">>) }

\* placeholders no replace call is written for: {{foo}}, {{date+1x}},
\* {{dates}}, {date}, {{date+d}}, {{\sdate\s}}, {{\date\\}}
UnrecognizedTokens ==
  { Braces(<<"f", "o", "o">>),
    Braces(Words.date \o <<"+", "1", "x">>),
    Braces(Words.date \o <<"s">>),
    <<"{">> \o Words.date \o <<"}">>,
    Braces(Words.date \o <<"+", "d">>),
    Braces(<<"\\", "s">> \o Words.date \o <<"\\", "s">>),
    Braces(<<"\\">> \o Words.date \o <<"\\", "\\">>) }

ExpandTexts ==
  { Wrap(token) : token \in DateTitleTokens \cup {DatePlus1d, DateYYYY, Yesterday, Tomorrow}
                            \cup OtherTokens \cup UnrecognizedTokens }
    \cup { <<"a", "b">>,
           Braces(<<"f", "o", "o">>) \o Braces(Words.date) \o <<" ">> \o Braces(Words.date) }

\* the resolver whose patterns are written with doubled backslashes
Escaped == impl = "yearlySettings"

InitExpand ==
  /\ impl \in {"yearlyPeriodic", "yearlySettings"}
  /\ \E format \in ExpandFormats :
       /\ settings = [shouldConfirmBeforeCreate |-> FALSE,
                      quarterlyNoteFormat   |-> "",
                      quarterlyNoteFolder   |-> "",
                      quarterlyNoteTemplate |-> "",
                      yearlyNoteFormat      |-> format,
                      yearlyNoteFolder      |-> "",
                      yearlyNoteTemplate    |-> "Templates/period"]
       /\ periodicNotes =
            [installed |-> TRUE,
             quarterly |-> [format |-> "", folder |-> ""],
             yearly |-> [format |-> format, folder |-> "", template |-> "Templates/period"]]
  /\ \E text \in ExpandTexts :
       /\ templateFile = [exists |-> TRUE, contents |-> text, fold |-> NULL]
       /\ \E date \in ExpandDates :
            expander = [stage |-> "date", date |-> date, text |-> text, current |-> text]
  /\ now \in Clocks
  /\ vault = << >>
  /\ folders = {}
  /\ foldState = << >>
  /\ res = [s \in Slots |-> Fresh]
  /\ resolved = << >>
  /\ quarterlyNotes = NullStore
  /\ yearlyNotes = NullStore
  /\ storeOp = "none"
  /\ indicators = NoIndicators
  /\ monthlyNotes = NullStore
  /\ storeErrors = NoErrors
  /\ component = "Calendar.svelte"
  /\ dom = <<>>
  /\ flush = NoFlush
  /\ wallClock = WithClock(mkDate(2026, 1, 31), Midnight)
  /\ calendar = Mounted(wallClock)
  /\ beat = NoBeat

\* what the replace calls leave alone
nonExpanderVars ==
  <<impl, settings, periodicNotes, vault, folders, templateFile, foldState, res, resolved, now,
    storeVars, calendarVars, decorVars, flush>>

\* .replace(/{{\s*date\s*}}/gi, filename)
ExpandDate ==
  /\ expander.stage = "date"
  /\ expander' = [expander EXCEPT
                    !.stage = "time",
                    !.current = ReplaceDate(@, Filename(expander.date), Escaped)]
  /\ UNCHANGED nonExpanderVars

\* .replace(/{{\s*time\s*}}/gi, moment().format("HH:mm"))
ExpandTime ==
  /\ expander.stage = "time"
  /\ expander' = [expander EXCEPT !.stage = "title",
                                  !.current = ReplaceTime(@, now, Escaped)]
  /\ UNCHANGED nonExpanderVars

\* .replace(/{{\s*title\s*}}/gi, filename)
ExpandTitle ==
  /\ expander.stage = "title"
  /\ expander' = [expander EXCEPT
                    !.stage = "datetime",
                    !.current = ReplaceTitle(@, Filename(expander.date), Escaped)]
  /\ UNCHANGED nonExpanderVars

\* .replace(/{{\s*(date|time)...}}/gi, replacer): the last call of the
\* settings-based resolver
ExpandDateTime ==
  /\ expander.stage = "datetime"
  /\ expander' = [expander EXCEPT
                    !.stage = IF Escaped THEN "done" ELSE "yesterday",
                    !.current = ReplaceDateTime(@, expander.date, NoteSettings.format,
                                                now, Escaped)]
  /\ UNCHANGED nonExpanderVars

\* .replace(/{{\s*yesterday\s*}}/gi, date.clone().subtract(1, "day").format(format))
ExpandYesterday ==
  /\ expander.stage = "yesterday"
  /\ expander' = [expander EXCEPT
                    !.stage = "tomorrow",
                    !.current = ReplaceYesterday(@, expander.date, NoteSettings.format)]
  /\ UNCHANGED nonExpanderVars

\* .replace(/{{\s*tomorrow\s*}}/gi, date.clone().add(1, "d").format(format))
ExpandTomorrow ==
  /\ expander.stage = "tomorrow"
  /\ expander' = [expander EXCEPT
                    !.stage = "done",
                    !.current = ReplaceTomorrow(@, expander.date, NoteSettings.format)]
  /\ UNCHANGED nonExpanderVars

NextExpand ==
  \/ ExpandDate
  \/ ExpandTime
  \/ ExpandTitle
  \/ ExpandDateTime
  \/ ExpandYesterday
  \/ ExpandTomorrow

SpecExpand == InitExpand /\ [][NextExpand]_vars

----------------------------------------------------------------------------
(* The note index on its own *)

InitStore ==
  /\ impl = "quarterly"
  /\ settings = [shouldConfirmBeforeCreate |-> FALSE,
                 quarterlyNoteFormat   |-> "",
                 quarterlyNoteFolder   |-> "",
                 quarterlyNoteTemplate |-> "",
                 yearlyNoteFormat      |-> "",
                 yearlyNoteFolder      |-> "",
                 yearlyNoteTemplate    |-> ""]
  /\ \E folder \in FolderSettings, installed \in BOOLEAN :
       /\ installed \/ folder = ""
       /\ periodicNotes =
            IF installed
            THEN [installed |-> TRUE,
                  quarterly |-> [format |-> "", folder |-> folder],
                  yearly |-> [format |-> "", folder |-> folder, template |-> ""]]
            ELSE NoPlugin
  /\ vault = << >>
  /\ folders = {}
  /\ templateFile = NoTemplate
  /\ foldState = << >>
  /\ res = [s \in Slots |-> Fresh]
  /\ resolved = << >>
  /\ now = Midnight
  /\ expander = NoExpansion
  /\ quarterlyNotes = NullStore
  /\ yearlyNotes = NullStore
  /\ storeOp = "none"
  /\ indicators = NoIndicators
  /\ monthlyNotes = NullStore
  /\ storeErrors = NoErrors
  /\ component = "Calendar.svelte"
  /\ dom = <<>>
  /\ flush = NoFlush
  /\ wallClock = WithClock(mkDate(2026, 1, 31), Midnight)
  /\ calendar = Mounted(wallClock)
  /\ beat = NoBeat

\* what the index and the vault's other writers leave alone
\* what neither the index nor the calendar component touches
nonIndexVars ==
  <<impl, settings, periodicNotes, templateFile, foldState, res, resolved, now, expander,
    decorVars>>

nonStoreVars == <<nonIndexVars, calendarVars>>

\* a note file is created in the vault, with the folders above it
VaultCreateFile(file) ==
  /\ FilePath(file) \notin DOMAIN vault
  /\ vault' = (FilePath(file) :> "") @@ vault
  /\ folders' = folders \cup {normalizePath(SubSeq(file.folder, 1, n)) : n \in 1..Len(file.folder)}
  /\ storeOp' = "create"
  /\ UNCHANGED <<monthlyNotes, quarterlyNotes, yearlyNotes, storeErrors, indicators, flush>>
  /\ UNCHANGED nonStoreVars

\* a note file is deleted from the vault
VaultDeleteFile(file) ==
  /\ FilePath(file) \in DOMAIN vault
  /\ vault' = [p \in DOMAIN vault \ {FilePath(file)} |-> vault[p]]
  /\ storeOp' = "delete"
  /\ UNCHANGED <<folders, monthlyNotes, quarterlyNotes, yearlyNotes, storeErrors, indicators,
                 flush>>
  /\ UNCHANGED nonStoreVars

\* $: today = getToday($settings), run when the calendar is set up and on
\* every change of the settings: quarterlyNotes.reindex(),
\* yearlyNotes.reindex(), and today is the moment the clock shows
getToday ==
  /\ reindexAll
  /\ storeOp' = "getToday"
  /\ calendar' = WithToday(calendar, wallClock)
  /\ beat' = [beat EXCEPT !.last = "getToday"]
  /\ flush' = Invalidate(flush)
  /\ UNCHANGED <<vault, folders, indicators, wallClock>>
  /\ UNCHANGED nonIndexVars

\* afterUpdate of the calendar, which getToday has set up: the notes of the
\* displayed month's quarter and year are looked up for the indicators; the
\* other version of the component reindexes the stores first
afterUpdate(displayedMonth) ==
  /\ quarterlyNotes.indexed /\ yearlyNotes.indexed
  /\ \/ /\ storeOp' = "afterUpdate"
        /\ UNCHANGED <<monthlyNotes, quarterlyNotes, yearlyNotes, storeErrors, flush>>
     \/ /\ reindexAll
        /\ storeOp' = "afterUpdateReindex"
        /\ flush' = Invalidate(flush)
  /\ indicators' = [date      |-> displayedMonth,
                    quarterly |-> getQuarterlyNote(displayedMonth, quarterlyNotes'),
                    yearly    |-> getYearlyNote(displayedMonth, yearlyNotes')]
  /\ UNCHANGED <<vault, folders>>
  /\ UNCHANGED nonStoreVars

NextStore ==
  \/ \E file \in StoreFiles : VaultCreateFile(file)
  \/ \E file \in StoreFiles : VaultDeleteFile(file)
  \/ getToday
  \/ \E date \in StoreDates : afterUpdate(date)

SpecStore == InitStore /\ [][NextStore]_vars

----------------------------------------------------------------------------
(* The calendar component on its own, late in the evening: the clock runs   *)
(* in steps of half a minute and the heartbeat fires every full minute     *)

\* the evenings the calendar is watched on: the last day of a month, of a
\* year, a day in the middle of a month and the day before a leap day
CalendarDays == {mkDate(2026, 1, 31), mkDate(2026, 12, 31), mkDate(2026, 2, 14), mkDate(2024, 2, 28)}

\* when the evening starts and when the clock is let go of
FirstClock == [hour |-> 23, minute |-> 58, second |-> 30]

LastClock == [hour |-> 0, minute |-> 2, second |-> 0]

ClockSeconds(m) == m.hour * 3600 + m.minute * 60 + m.second

InitCalendar ==
  /\ impl = "quarterly"
  /\ settings = [shouldConfirmBeforeCreate |-> FALSE,
                 quarterlyNoteFormat   |-> "",
                 quarterlyNoteFolder   |-> "",
                 quarterlyNoteTemplate |-> "",
                 yearlyNoteFormat      |-> "",
                 yearlyNoteFolder      |-> "",
                 yearlyNoteTemplate    |-> ""]
  /\ periodicNotes = NoPlugin
  /\ vault = << >>
  /\ folders = {}
  /\ templateFile = NoTemplate
  /\ foldState = << >>
  /\ res = [s \in Slots |-> Fresh]
  /\ resolved = << >>
  /\ now = Midnight
  /\ expander = NoExpansion
  /\ quarterlyNotes = NullStore
  /\ yearlyNotes = NullStore
  /\ storeOp = "none"
  /\ indicators = NoIndicators
  /\ monthlyNotes = NullStore
  /\ storeErrors = NoErrors
  /\ component = "Calendar.svelte"
  /\ dom = <<>>
  /\ flush = NoFlush
  /\ \E day \in CalendarDays : wallClock = WithClock(day, FirstClock)
  /\ calendar = Mounted(wallClock)
  /\ \E elapsed \in {0, 30} : beat = [NoBeat EXCEPT !.elapsed = elapsed]

\* what the calendar component leaves alone
nonCalendarVars == <<nonIndexVars, vault, folders, storeVars>>

\* half a minute passes; the interval timer lets no full minute pass
\* without a heartbeat
TimePasses ==
  /\ beat.elapsed < 60
  /\ wallClock.hour = FirstClock.hour \/ ClockSeconds(wallClock) < ClockSeconds(LastClock)
  /\ wallClock' = AddSeconds(wallClock, 30)
  /\ beat' = [beat EXCEPT !.elapsed = @ + 30, !.last = "time"]
  /\ UNCHANGED <<calendar, flush>>
  /\ UNCHANGED nonCalendarVars

\* export function tick(): today = window.moment()
tick ==
  /\ calendar' = WithToday(calendar, wallClock)
  /\ beat' = [beat EXCEPT !.last = "tick"]
  /\ flush' = Invalidate(flush)
  /\ UNCHANGED wallClock
  /\ UNCHANGED nonCalendarVars

\* the callback of setInterval(..., 1000 * 60): tick(), then displayedMonth
\* follows today when it is on the same day as today
Heartbeat ==
  /\ beat.elapsed = 60
  /\ LET ticked == WithToday(calendar, wallClock)
         isViewingCurrentMonth == isSame(ticked.displayedMonth, ticked.today, "day")
     IN calendar' = IF isViewingCurrentMonth
                    THEN [ticked EXCEPT !.displayedMonth = ticked.today]
                    ELSE ticked
  /\ beat' = [elapsed     |-> 0,
              last        |-> "heartbeat",
              showedToday |-> isSame(calendar.displayedMonth, calendar.today, "day"),
              dayChanged  |-> ~isSame(calendar.today, wallClock, "day")]
  /\ flush' = Invalidate(flush)
  /\ UNCHANGED wallClock
  /\ UNCHANGED nonCalendarVars

\* bind:displayedMonth: the calendar grid moves the display a month back
\* or forth, or back to today
Navigate ==
  /\ \E m \in {AddMonths(calendar.today, -1), AddMonths(calendar.today, 1), calendar.today} :
       /\ m # calendar.displayedMonth
       /\ calendar' = [calendar EXCEPT !.displayedMonth = m]
  /\ beat' = [beat EXCEPT !.last = "navigate"]
  /\ flush' = Invalidate(flush)
  /\ UNCHANGED wallClock
  /\ UNCHANGED nonCalendarVars

NextCalendar ==
  \/ TimePasses
  \/ tick
  \/ Heartbeat
  \/ Navigate
  \/ getToday

SpecCalendar == InitCalendar /\ [][NextCalendar]_vars

----------------------------------------------------------------------------
(* The resolver and the note index together: one resolution at a time, no  *)
(* prompt and no template, the stores reindexed and read in between         *)

InitResolveAndIndex ==
  /\ impl \in Impls
  /\ \E folder \in FolderSettings, installed \in BOOLEAN :
       /\ installed \/ (impl = "yearlyPeriodic" /\ folder = "")
       /\ settings = [shouldConfirmBeforeCreate |-> FALSE,
                      quarterlyNoteFormat   |-> "",
                      quarterlyNoteFolder   |-> folder,
                      quarterlyNoteTemplate |-> "",
                      yearlyNoteFormat      |-> "",
                      yearlyNoteFolder      |-> folder,
                      yearlyNoteTemplate    |-> ""]
       /\ periodicNotes =
            IF installed
            THEN [installed |-> TRUE,
                  quarterly |-> [format |-> "", folder |-> folder],
                  yearly |-> [format |-> "", folder |-> folder, template |-> ""]]
            ELSE NoPlugin
       /\ folders \in SUBSET ({folder} \ {""})
  /\ templateFile = NoTemplate
  /\ vault = << >>
  /\ foldState = << >>
  /\ res = [s \in Slots |-> Fresh]
  /\ resolved = << >>
  /\ now = Midnight
  /\ expander = NoExpansion
  /\ quarterlyNotes = NullStore
  /\ yearlyNotes = NullStore
  /\ storeOp = "none"
  /\ indicators = NoIndicators
  /\ monthlyNotes = NullStore
  /\ storeErrors = NoErrors
  /\ component = "Calendar.svelte"
  /\ dom = <<>>
  /\ flush = NoFlush
  /\ wallClock = WithClock(mkDate(2026, 1, 31), Midnight)
  /\ calendar = Mounted(wallClock)
  /\ beat = NoBeat

NextResolveAndIndex ==
  \/ \E date \in Dates : Start("a", date)
  \/ FolderDone("a")
  \/ CreateDone("a")
  \/ OpenDone("a")
  \/ \E date \in Dates : ExternalCreate(date)
  \/ getToday
  \/ \E date \in StoreDates : afterUpdate(date)

SpecResolveAndIndex == InitResolveAndIndex /\ [][NextResolveAndIndex]_vars

----------------------------------------------------------------------------
(* The decoration on its own: the component is mounted, the displayed month *)
(* and the stores change, and every change is followed by a flush           *)

\* the days the calendar is mounted on
DecorDays == {mkDate(2026, 3, 15), mkDate(2027, 1, 15)}

\* the notes that come and go
DecorFiles == {mkFile(<<"Periodic">>, "2026-Q1"), mkFile(<<"Periodic">>, "2026")}

\* the first flush of the mounted component has rendered the header and is
\* about to call afterUpdate
MountFlush == [NoFlush EXCEPT !.flushing = TRUE, !.pending = TRUE]

InitDecorate ==
  /\ impl = "quarterly"
  /\ settings = [shouldConfirmBeforeCreate |-> FALSE,
                 quarterlyNoteFormat   |-> "",
                 quarterlyNoteFolder   |-> "",
                 quarterlyNoteTemplate |-> "",
                 yearlyNoteFormat      |-> "",
                 yearlyNoteFolder      |-> "",
                 yearlyNoteTemplate    |-> ""]
  /\ periodicNotes = [installed |-> TRUE,
                      quarterly |-> [format |-> "", folder |-> "Periodic"],
                      yearly |-> [format |-> "", folder |-> "Periodic", template |-> ""]]
  /\ vault = << >>
  /\ folders = {}
  /\ templateFile = NoTemplate
  /\ foldState = << >>
  /\ res = [s \in Slots |-> Fresh]
  /\ resolved = << >>
  /\ now = Midnight
  /\ expander = NoExpansion
  /\ \E notes \in getAllMonthlyNotes : monthlyNotes = StoreSet(NullStore, notes)
  /\ storeErrors = NoErrors
  /\ quarterlyNotes = StoreSet(NullStore, << >>)
  /\ yearlyNotes = StoreSet(NullStore, << >>)
  /\ storeOp = "getToday"
  /\ indicators = NoIndicators
  /\ \E day \in DecorDays : wallClock = WithClock(day, Midnight)
  /\ calendar = Mounted(wallClock)
  /\ beat = NoBeat
  /\ component \in Components
  /\ dom = Rendered(calendar.displayedMonth)
  /\ flush = MountFlush

\* no flush runs and none is scheduled: the next event is handled
Idle == flush = NoFlush

\* flush: the dirty component is updated, which renders the header and
\* hands its afterUpdate callback to the flush
FlushUpdate ==
  /\ flush.dirty
  /\ dom' = Render(dom, calendar.displayedMonth)
  /\ flush' = [flush EXCEPT !.dirty = FALSE, !.flushing = TRUE, !.pending = TRUE]
  /\ UNCHANGED <<impl, settings, periodicNotes, vault, folders, templateFile, foldState, res,
                 resolved, now, expander, storeVars, calendarVars, component>>

\* flush: the afterUpdate callback is called unless it has been in this
\* flush; part_004 reindexes the stores first, which marks the component
\* dirty again; then the lookups and the walk over the header
FlushAfterUpdate ==
  /\ flush.flushing /\ flush.pending /\ ~flush.dirty
  /\ IF ~ShouldCall(flush)
     THEN /\ flush' = [flush EXCEPT !.pending = FALSE]
          /\ UNCHANGED <<dom, monthlyNotes, quarterlyNotes, yearlyNotes, storeErrors, storeOp>>
     ELSE /\ IF component = "part_004"
             THEN /\ reindexAll
                  /\ storeOp' = "afterUpdateReindex"
             ELSE /\ UNCHANGED <<monthlyNotes, quarterlyNotes, yearlyNotes, storeErrors>>
                  /\ storeOp' = "afterUpdate"
          /\ \E ctx \in {PassContext(calendar.displayedMonth, monthlyNotes',
                                       quarterlyNotes', yearlyNotes')} :
               dom' = Decorate(dom, ctx)
          /\ flush' = [flush EXCEPT !.pending = FALSE, !.seen = TRUE,
                                    !.dirty = (component = "part_004"),
                                    !.passes = IF @ < 2 THEN @ + 1 ELSE @]
  /\ UNCHANGED <<impl, settings, periodicNotes, vault, folders, templateFile, foldState, res,
                 resolved, now, expander, indicators, calendarVars, component>>

\* flush: nothing is dirty and no callback is left
FlushEnd ==
  /\ flush.flushing /\ ~flush.dirty /\ ~flush.pending
  /\ flush' = NoFlush
  /\ UNCHANGED <<impl, settings, periodicNotes, vault, folders, templateFile, foldState, res,
                 resolved, now, expander, storeVars, calendarVars, decorVars>>

\* a click on the quarter label calls its handler, which reads the displayed
\* month when it is called
ClickQuarter ==
  /\ Idle
  /\ \E i \in DOMAIN dom : dom[i].wrapper = "quarter" /\ dom[i].onclick = "quarterly"
  /\ Start("a", calendar.displayedMonth)

NextDecorate ==
  \/ Idle /\ Navigate
  \/ ClickQuarter
  \/ Idle /\ tick
  \/ Idle /\ getToday
  \/ \E file \in DecorFiles : Idle /\ VaultCreateFile(file)
  \/ \E file \in DecorFiles : Idle /\ VaultDeleteFile(file)
  \/ FlushUpdate
  \/ FlushAfterUpdate
  \/ FlushEnd

SpecDecorate == InitDecorate /\ [][NextDecorate]_vars

\* a flush is one synchronous loop: once the component is dirty it runs to
\* its end
SpecDecorateFair ==
  /\ SpecDecorate
  /\ WF_vars(FlushUpdate) /\ WF_vars(FlushAfterUpdate) /\ WF_vars(FlushEnd)

----------------------------------------------------------------------------
(* Properties *)

Running == {s \in Slots : res[s].pc # "idle"}

Ended(rec) == rec.pc \in {"done", "failed"}

\* createFile's own lookup found no file: only then does it call the vault
SawAbsent(rec) ==
  Has(rec.log, "create") \/ Has(rec.log, "createFolder") \/ Has(rec.log, "cachedRead")

\* every `ev` of the log comes after an earlier `before`
Precedes(log, before, ev) ==
  \A i \in 1..Len(log) : log[i] = ev => \E j \in 1..(i - 1) : log[j] = before

\* every call `call` made before position i has its completion before i
CompletedBefore(log, call, completions, i) ==
  \A j \in 1..(i - 1) :
    log[j] = call => \E k \in (j + 1)..(i - 1) : log[k] \in completions

C2_AlreadyExistsIsSuccess ==
  \A s \in Running :
    Has(res[s].log, "create:exists") =>
      /\ res[s].pc \in {"opening", "done"}
      /\ res[s].error = ""
      /\ Count(res[s].log, "openFile") = 1
      /\ res[s].note = NotePath(res[s].date)
      /\ res[s].pc = "done" => res[s].cbFile = NotePath(res[s].date)

\* C3: a resolution that finds the note at the computed path makes no
\* vault.create, createFolder or template read, shows no prompt, and changes
\* nothing in the vault.
C3_ExistingNeverCreates ==
  \A s \in Running :
    res[s].existingAtEntry =>
      /\ \A ev \in {"create", "createFolder", "cachedRead", "prompt", "foldSave", "notice"} :
           ~Has(res[s].log, ev)
      /\ res[s].pc \in {"opening", "done"}
      /\ res[s].note = NotePath(res[s].date)

\* C3 witness: a resolution that found the file has completed.
C3_Witness ==
  \E s \in Running :
    res[s].existingAtEntry /\ res[s].pc = "done" /\ res[s].cbFile = NotePath(res[s].date)

\* C4: with shouldConfirmBeforeCreate set, every vault.create and createFolder
\* of a resolution comes after the user accepted the prompt of that
\* resolution, and once the prompt is accepted createFile has run.
C4_ConfirmBeforeCreate ==
  settings.shouldConfirmBeforeCreate =>
    \A s \in Running :
      /\ Precedes(res[s].log, "accept", "create")
      /\ Precedes(res[s].log, "accept", "createFolder")
      /\ Precedes(res[s].log, "prompt", "accept")
      /\ Has(res[s].log, "accept") =>
           /\ res[s].pc \in {"mkfolder", "reading", "creating", "opening", "done", "failed"}
           /\ SawAbsent(res[s]) \/ Has(res[s].log, "openFile")

\* C4 witness: a note was created after the prompt was accepted.
C4_Witness ==
  /\ settings.shouldConfirmBeforeCreate
  /\ \E s \in Running : Has(res[s].log, "accept") /\ Has(res[s].log, "create:ok")

\* C5: a declined or dismissed prompt leaves no side effect of the
\* resolution: nothing created, no pane acquired or opened, no fold state
\* saved, no callback.
C5_DeclineHasNoEffect ==
  \A s \in Running :
    res[s].pc = "declined" =>
      /\ res[s].log = <<"prompt", "decline">>
      /\ res[s].note = "" /\ res[s].cbFile = ""
      /\ res[s].accept = "none"

\* C5 witness: a prompt was declined while the note does not exist.
C5_Witness ==
  \E s \in Running : res[s].pc = "declined" /\ ~Exists(NotePath(res[s].date))

\* C6 as stated: a vault.create failure that is not pre-existence rejects
\* the promise of the resolver's caller, confirm-before-create on or off.
C6_FailureReachesCaller ==
  \A s \in Running :
    Has(res[s].log, "create:error") => (res[s].pc = "failed" /\ res[s].caller = "rejected")

\* C6 amended: such a failure is never swallowed; createFile rethrows it to
\* the caller of the resolver when confirm-before-create is off and to the
\* dialog that called onAccept when it is on (the resolver's promise has
\* then already resolved).
C6_FailureRethrown ==
  \A s \in Running :
    Has(res[s].log, "create:error") =>
      /\ res[s].pc = "failed"
      /\ res[s].error = "Write failed"
      /\ IF settings.shouldConfirmBeforeCreate
         THEN res[s].accept = "rejected" /\ res[s].caller = "resolved"
         ELSE res[s].caller = "rejected" /\ res[s].accept = "none"

\* C6 witness: a write failure after an accepted prompt.
C6_Witness ==
  \E s \in Running :
    /\ Has(res[s].log, "create:error")
    /\ res[s].accept = "rejected"
    /\ HasCatch

\* C7: two overlapping resolutions of one period that both found the file
\* absent end with one note, both having opened it, and no error (no other
\* writer and no write failure involved).
C7_RaceEndsInOneNote ==
  \A s, t \in Running :
    ( /\ s # t
      /\ PeriodUID(res[s].date) = PeriodUID(res[t].date)
      /\ SawAbsent(res[s]) /\ SawAbsent(res[t])
      /\ Ended(res[s]) /\ Ended(res[t])
      /\ ~Has(res[s].log, "create:error") /\ ~Has(res[t].log, "create:error")
      /\ \A p \in DOMAIN vault : vault[p] # "external" )
    => /\ res[s].pc = "done" /\ res[t].pc = "done"
       /\ res[s].note = res[t].note
       /\ Cardinality(DOMAIN vault) = 1

\* C8: within a resolution the template read completes before vault.create
\* is called, vault.create completes before leaf.openFile is called, and the
\* callback runs right after openFile completed, with the file opened.
C8_StepsInOrder ==
  \A s \in Running :
    LET log == res[s].log
    IN /\ \A i \in 1..Len(log) :
            /\ log[i] = "create" =>
                 CompletedBefore(log, "cachedRead", {"cachedRead:ok", "cachedRead:error"}, i)
            /\ log[i] = "cachedRead" => \A j \in 1..(i - 1) : log[j] # "create"
            /\ log[i] = "openFile" =>
                 CompletedBefore(log, "create", {"create:ok", "create:exists"}, i)
            /\ log[i] = "cb" => (i > 1 /\ log[i - 1] = "openFile:ok")
            /\ log[i] = "openFile:ok" => \E j \in 1..(i - 1) : log[j] = "openFile"
       /\ res[s].cbFile # "" => (res[s].pc = "done" /\ res[s].cbFile = res[s].note)
       /\ res[s].pc = "done" => (Has(log, "cb") /\ res[s].cbFile = res[s].note)

\* C8 witness: a resolution read its template, created the note, opened it
\* and called back.
C8_Witness ==
  \E s \in Running :
    /\ res[s].pc = "done"
    /\ Has(res[s].log, "cachedRead:ok")
    /\ Has(res[s].log, "create:ok")
    /\ res[s].cbFile = NotePath(res[s].date)

\* C9: a failed template read is not propagated: the user gets a notice, the
\* template counts as empty and the note is created with the default content.
C9_TemplateFailureGivesDefault ==
  \A s \in Running :
    Has(res[s].log, "cachedRead:error") =>
      /\ Has(res[s].log, "notice")
      /\ Has(res[s].log, "create")
      /\ res[s].content = DefaultHeader(Filename(res[s].date))

\* the text the running implementation's expander makes of the template
\* file, "" when no template is configured or found
ExpandedTemplate(date) ==
  IF NoteSettings.template = "" \/ ~templateFile.exists THEN ""
  ELSE IF impl = "yearlySettings"
  THEN ExpandTemplateEscaped(templateFile.contents, date, Filename(date))
  ELSE ExpandTemplate(templateFile.contents, date, Filename(date))

\* C10: the data of every vault.create is the expanded template when one is
\* configured and yields text, and the default header otherwise, for the
\* quarterly and the yearly resolvers alike.
C10_ContentTemplateOrHeader ==
  \A s \in Running :
    (Has(res[s].log, "create") /\ ~Has(res[s].log, "cachedRead:error")) =>
      res[s].content = IF ExpandedTemplate(res[s].date) # ""
                       THEN ExpandedTemplate(res[s].date)
                       ELSE DefaultHeader(Filename(res[s].date))

\* C16: within a resolution the path createFile works with is the path
\* openOrCreate* looked the note up at, the note is created and opened at
\* that path, and two resolutions of one date compute the same path.
C16_PathDeterministic ==
  /\ \A s \in Running :
       /\ res[s].path = NotePath(res[s].date)
       /\ res[s].createPath # "" => res[s].createPath = res[s].path
       /\ res[s].note # "" => res[s].note = res[s].path
       /\ Has(res[s].log, "create:ok") => Exists(res[s].path)
  /\ \A s, t \in Running : res[s].date = res[t].date => res[s].path = res[t].path

\* C16 witness: with a folder configured, a resolution created its note at
\* the path it had looked up while another resolution of the same date ran.
C16_Witness ==
  \E s, t \in Running :
    /\ s # t /\ res[s].date = res[t].date
    /\ NoteSettings.folder # ""
    /\ Has(res[s].log, "create:ok")
    /\ res[s].createPath = res[s].path
    /\ res[t].createPath = res[s].path

\* C19: the fold info of the template is saved onto a note exactly when the
\* note was created from a template that was read and has fold info; it is
\* saved right after vault.create returned.  No fold info is saved when the
\* template has none, when no template is used, or when the existing file
\* is opened.
C19_FoldStateCopied ==
  /\ \A s \in Running :
       LET log == res[s].log
       IN /\ Has(log, "foldSave") <=>
               (Has(log, "create:ok") /\ Has(log, "cachedRead:ok") /\ templateFile.fold # NULL)
          /\ \A i \in 1..Len(log) : log[i] = "foldSave" => (i > 1 /\ log[i - 1] = "create:ok")
          /\ Has(log, "foldSave") =>
               /\ res[s].createPath \in DOMAIN foldState
               /\ foldState[res[s].createPath] = templateFile.fold
          /\ res[s].existingAtEntry => ~Has(log, "foldSave")
  /\ \A path \in DOMAIN foldState :
       /\ Exists(path) /\ vault[path] # "external"
       /\ foldState[path] = templateFile.fold /\ templateFile.fold # NULL
       /\ HasTemplates /\ NoteSettings.template # ""

\* C19 witness: a note was created from a template with fold info and opened.
C19_Witness ==
  \E s \in Running :
    /\ res[s].pc = "done"
    /\ Has(res[s].log, "foldSave")
    /\ foldState[res[s].note] = "folds"

\* C21: when the file has come into existence between the prompt and its
\* acceptance, the accepted resolution opens that file and hands it to the
\* callback, and calls neither vault.create nor createFolder
C21_AcceptOpensExisting ==
  \A s \in Slots :
    res[s].existingAtAccept =>
      /\ ~res[s].existingAtEntry
      /\ res[s].pc \in {"opening", "done"}
      /\ ~Has(res[s].log, "create") /\ ~Has(res[s].log, "createFolder")
      /\ res[s].note = NotePath(res[s].date) /\ Exists(res[s].note)
      /\ res[s].pc = "done" =>
           /\ res[s].cbFile = res[s].note
           /\ res[s].accept = "resolved"
           /\ Count(res[s].log, "cb") = 1

\* C21 witness: another writer created the note while the prompt was up, and
\* the accepted resolution has completed
C21_Witness ==
  \E s \in Slots :
    /\ res[s].existingAtAccept /\ res[s].pc = "done"
    /\ vault[res[s].note] = "external"

----------------------------------------------------------------------------
(* Properties of the template expander (SpecExpand) *)

\* the text createFile hands on once every replace call has run
fileContent == Join(expander.current)

Expanded == expander.stage = "done"

\* the steps agree with the chain the resolutions use
ExpanderAgrees ==
  Expanded =>
    fileContent = IF Escaped
                  THEN ExpandTemplateEscaped(expander.text, expander.date, Filename(expander.date))
                  ELSE ExpandTemplate(expander.text, expander.date, Filename(expander.date))

\* C11: {{date}} and {{title}}, in any case and with whitespace inside the
\* braces, come out as the note's filename, the target date in the
\* configured format.
C11_DateTitleBecomeFilename ==
  \A token \in DateTitleTokens :
    (Expanded /\ expander.text = Wrap(token)) =>
      fileContent = "# " \o FormatDate(expander.date, NoteSettings.format) \o "!"

\* C12: a placeholder outside the template grammar is left as it is, and a
\* text with no placeholder of the grammar comes out equal to the input.
C12_UnrecognizedUntouched ==
  Expanded =>
    /\ \A token \in UnrecognizedTokens :
         expander.text = Wrap(token) => fileContent = Join(expander.text)
    /\ expander.text = <<"a", "b">> => fileContent = "ab"
    /\ expander.text = Braces(<<"f", "o", "o">>) \o Braces(Words.date)
                         \o <<" ">> \o Braces(Words.date)
         => \E rest \in {Filename(expander.date) \o " " \o Filename(expander.date),
                         "{{date}} {{date}}"} :
              fileContent = "{{foo}}" \o rest

\* C13: {{date+1d}} for the target date 2026-01-31 comes out as 2026-02-01
\* in the configured format, at any time of day.
C13_OffsetRollsOver ==
  (Expanded /\ expander.text = Wrap(DatePlus1d) /\ expander.date = mkDate(2026, 1, 31)) =>
    fileContent = "# " \o FormatDate(mkDate(2026, 2, 1), NoteSettings.format) \o "!"

\* C14: {{date:YYYY}} comes out as the 4-digit year of the target date,
\* whatever format is configured for the note.
C14_CustomFormatOverrides ==
  (Expanded /\ expander.text = Wrap(DateYYYY)) =>
    fileContent = "# " \o ToString(expander.date.year) \o "!"

\* the day before and the day after each target date, from the calendar
ExpectedYesterday(date) ==
  CASE date = mkDate(2026, 1, 31)  -> mkDate(2026, 1, 30)
    [] date = mkDate(2026, 12, 31) -> mkDate(2026, 12, 30)
    [] date = mkDate(2026, 1, 1)   -> mkDate(2025, 12, 31)
    [] date = mkDate(2024, 2, 28)  -> mkDate(2024, 2, 27)

ExpectedTomorrow(date) ==
  CASE date = mkDate(2026, 1, 31)  -> mkDate(2026, 2, 1)
    [] date = mkDate(2026, 12, 31) -> mkDate(2027, 1, 1)
    [] date = mkDate(2026, 1, 1)   -> mkDate(2026, 1, 2)
    [] date = mkDate(2024, 2, 28)  -> mkDate(2024, 2, 29)

\* C15: {{yesterday}} and {{tomorrow}} come out as the day before and the day
\* after the target date in the configured format, in each yearly resolver
\* that expands templates.
C15_YesterdayTomorrow ==
  Expanded =>
    /\ expander.text = Wrap(Yesterday) =>
         fileContent = "# " \o FormatDate(ExpectedYesterday(expander.date), NoteSettings.format)
                            \o "!"
    /\ expander.text = Wrap(Tomorrow) =>
         fileContent = "# " \o FormatDate(ExpectedTomorrow(expander.date), NoteSettings.format)
                            \o "!"

----------------------------------------------------------------------------
(* Properties of the note index (SpecStore) *)

Reindexed == storeOp \in {"getToday", "afterUpdateReindex"}

LookedUp == storeOp \in {"afterUpdate", "afterUpdateReindex"}

\* C17: two dates have the same quarterly date-UID exactly when they are of
\* the same year and quarter, and the same yearly date-UID exactly when they
\* are of the same year; a lookup returns the file indexed under the date's
\* UID, a note of that period, and null when the index holds none.
C17_UIDIdentifiesPeriod ==
  /\ \A d1, d2 \in UIDDates :
       /\ (getQuarterlyDateUID(d1) = getQuarterlyDateUID(d2))
            <=> (d1.year = d2.year /\ quarter(d1) = quarter(d2))
       /\ (getYearlyDateUID(d1) = getYearlyDateUID(d2)) <=> (d1.year = d2.year)
  /\ LookedUp =>
       /\ indicators.quarterly # "TypeError" /\ indicators.yearly # "TypeError"
       /\ IF \E uid \in DOMAIN quarterlyNotes.notes :
               uid = "quarter-" \o ToString(indicators.date.year) \o "-"
                       \o ToString(quarter(indicators.date))
          THEN /\ indicators.date = mkDate(2026, 2, 1)
               /\ indicators.quarterly \in {"Periodic/2026-Q1.md", "Periodic/old/2026-Q1.md"}
               /\ indicators.quarterly = quarterlyNotes.notes["quarter-2026-1"]
          ELSE indicators.quarterly = NULL
       /\ IF "year-2026" \in DOMAIN yearlyNotes.notes
          THEN indicators.yearly = "Periodic/2026.md"
          ELSE indicators.yearly = NULL

\* C17 witness: the notes of the displayed month's quarter and year were
\* found in the index.
C17_Witness ==
  /\ storeOp = "afterUpdate"
  /\ indicators.date = mkDate(2026, 2, 1)
  /\ indicators.quarterly = "Periodic/old/2026-Q1.md"
  /\ indicators.yearly = "Periodic/2026.md"

\* after a reindex each store holds a fresh scan of its folder
StoresAreFreshScans ==
  Reindexed =>
    /\ quarterlyNotes.indexed /\ quarterlyNotes.notes \in getAllQuarterlyNotes
    /\ yearlyNotes.indexed /\ yearlyNotes.notes \in getAllYearlyNotes

\* a step that changes the vault leaves the stores as they are
VaultChangeKeepsStores ==
  vault' # vault => (quarterlyNotes' = quarterlyNotes /\ yearlyNotes' = yearlyNotes)

\* C18: the index is rebuilt as a whole: after every reindex a store holds
\* exactly what a fresh scan of the configured folder gives, and a note
\* created or deleted between two reindex calls does not alter the store.
C18_IndexRebuiltAsAWhole == [](StoresAreFreshScans) /\ [][VaultChangeKeepsStores]_vars

\* C18 witness: a note was deleted after the last reindex and the store
\* still holds it.
C18_Witness ==
  /\ storeOp = "delete"
  /\ quarterlyNotes.indexed
  /\ \E uid \in DOMAIN quarterlyNotes.notes : quarterlyNotes.notes[uid] \notin DOMAIN vault

----------------------------------------------------------------------------
(* Properties of the calendar component (SpecCalendar) *)

\* C20: when the calendar showed the current day and the day has changed
\* since, the heartbeat that has just fired (the first one after the change,
\* the last day of a month included) has left displayedMonth at the new today
C20_HeartbeatCrossesMidnight ==
  (beat.last = "heartbeat" /\ beat.showedToday /\ beat.dayChanged)
    => /\ isSame(calendar.today, wallClock, "day")
       /\ calendar.displayedMonth = calendar.today

----------------------------------------------------------------------------
(* Properties of the resolver and the index together (SpecResolveAndIndex) *)

\* the store the notes of the running resolver are indexed in
NoteStore == IF impl = "quarterly" THEN quarterlyNotes ELSE yearlyNotes

\* what a reindex of that store may give for the vault as it is
NoteScans == IF impl = "quarterly" THEN getAllQuarterlyNotes ELSE getAllYearlyNotes

\* getQuarterlyNote / getYearlyNote on that store
getNote(date) ==
  IF impl = "quarterly" THEN getQuarterlyNote(date, NoteStore) ELSE getYearlyNote(date, NoteStore)

\* a resolution has created its note, and the store was reindexed since
CreatedThenReindexed(s) ==
  /\ res[s].pc = "done" /\ Has(res[s].log, "create:ok")
  /\ Reindexed /\ NoteStore.indexed /\ NoteStore.notes \in NoteScans

\* C22: after a resolver has created the note of a period, the next reindex
\* maps the period's date-UID to that file, and the lookup for any date of
\* the period returns it
C22_ResolverAndIndexAgree ==
  \A s \in Slots :
    CreatedThenReindexed(s) =>
      \A date \in Dates : PeriodUID(date) = PeriodUID(res[s].date) => getNote(date) = res[s].note

----------------------------------------------------------------------------
(* Properties of the decoration *)

\* an afterUpdate pass has run and nothing has changed since
AfterPass == flush.seen \/ Idle

\* the places of the wrappers of a kind in the header
Wrappers(kind) == {i \in DOMAIN dom : dom[i].wrapper = kind}

C24_IndicatorsReflectIndex ==
  AfterPass =>
    /\ \A i \in Wrappers("month") :
         /\ dom[i].dots # <<>>
         /\ \A k \in DOMAIN dom[i].dots :
              dom[i].dots[k] = DotTitle(getMonthlyNote(calendar.displayedMonth, monthlyNotes) # NULL)
    /\ \A i \in Wrappers("quarter") :
         /\ dom[i].dots # <<>>
         /\ \A k \in DOMAIN dom[i].dots :
              dom[i].dots[k] = DotTitle(getQuarterlyNote(calendar.displayedMonth, quarterlyNotes) # NULL)
    /\ \A i \in Wrappers("year") :
         /\ dom[i].dots # <<>>
         /\ \A k \in DOMAIN dom[i].dots :
              dom[i].dots[k] = DotTitle(getYearlyNote(calendar.displayedMonth, yearlyNotes) # NULL)

\* C25: after any number of passes and changes of the displayed month the
\* quarter label reads 'Q' and the quarter of the displayed month, and its
\* click handler is the quarterly resolver on the displayed month
C25_QuarterLabelFollowsMonth ==
  AfterPass =>
    /\ Wrappers("quarter") # {}
    /\ \A i \in Wrappers("quarter") :
         /\ dom[i].text = "Q" \o ToString(quarter(calendar.displayedMonth))
         /\ dom[i].onclick = "quarterly"

\* C26: after any number of passes the header holds at most one month
\* wrapper, one quarter wrapper and one year wrapper, each with exactly one
\* indicator element
C26_DecorationIdempotent ==
  \A kind \in {"month", "quarter", "year"} :
    /\ Cardinality(Wrappers(kind)) <= 1
    /\ \A i \in Wrappers(kind) : Len(dom[i].dots) = 1

\* all three wrappers are there after the passes that followed a change of
\* the displayed month and of a store
C26_Witness ==
  /\ Idle /\ calendar.displayedMonth # calendar.today
  /\ storeOp \in {"afterUpdate", "afterUpdateReindex"}
  /\ quarterlyNotes.notes # << >>
  /\ \A kind \in {"month", "quarter", "year"} : Cardinality(Wrappers(kind)) = 1

----------------------------------------------------------------------------
(* Properties of the folder of the yearly notes *)

\* C28: when a folder is configured for the yearly notes, vault.create is
\* called for a note only while the folder exists, the resolver having
\* created it where it was missing, and createFolder is called only while
\* the folder does not exist
C28_FolderCreatedBeforeNote ==
  /\ [](\A s \in Slots :
          (impl # "quarterly" /\ NoteSettings.folder # "" /\ res[s].pc = "creating")
            => FolderPath \in folders)
  /\ [][\A s \in Slots :
          (impl # "quarterly"
             /\ Count(res'[s].log, "createFolder") > Count(res[s].log, "createFolder"))
            => FolderPath \notin folders]_vars

----------------------------------------------------------------------------
(* Properties of a failing reindex *)

\* C27: a failing scan does not break a store: while the last reindex of a
\* store has thrown, the store holds the empty mapping and the run of
\* failures it belongs to was logged once, by its first failure; after a
\* reindex that succeeded hasError is false again, so that the next failure
\* is logged
C27_FailingScanLoggedOnce ==
  /\ storeErrors.monthly.run > 0 =>
       /\ monthlyNotes = [indexed |-> TRUE, notes |-> << >>]
       /\ storeErrors.monthly.hasError /\ storeErrors.monthly.logged = 1
  /\ storeErrors.quarterly.run > 0 =>
       /\ quarterlyNotes = [indexed |-> TRUE, notes |-> << >>]
       /\ storeErrors.quarterly.hasError /\ storeErrors.quarterly.logged = 1
  /\ storeErrors.yearly.run > 0 =>
       /\ yearlyNotes = [indexed |-> TRUE, notes |-> << >>]
       /\ storeErrors.yearly.hasError /\ storeErrors.yearly.logged = 1
  /\ \A k \in {"monthly", "quarterly", "yearly"} :
       storeErrors[k].run = 0 => ~storeErrors[k].hasError /\ storeErrors[k].logged = 0

\* the second failing reindex in a row
C27_Witness ==
  /\ storeErrors.monthly.run = 2 /\ storeErrors.monthly.logged = 1
  /\ monthlyNotes.indexed /\ monthlyNotes.notes = << >>

====
